---- MODULE Spec2Model ----
(***************************************************************************)
(* Model of the pdm configuration session engine: the schema-driven        *)
(* parser (src/src/config.rs), the session state machine, its file         *)
(* explorer and serializer (src/src/app.rs) and the frame renderer that    *)
(* records the interactive rectangles (src/src/ui.rs).                     *)
(*                                                                         *)
(* Text is modelled as sequences of one-character strings, so that         *)
(* trimming, splitting at '=' and '.', and name comparison are computed.   *)
(***************************************************************************)
EXTENDS Integers, Sequences, FiniteSets, TLC

\* ------------------------------------------------------------------------
\* Bounds of the exploration
\* ------------------------------------------------------------------------

\* longest edit buffer the typed-character handler is explored with
MaxBufLen == 2

\* number of entry mutations (toggle, boolean flip, commit) explored
MaxEdits == 1

\* ------------------------------------------------------------------------
\* Text helpers
\* ------------------------------------------------------------------------

\* the characters in use, in ascending byte order
Ascii ==
  << " ", "#", ".", "0", "1", ":", ";", "=", "A", "B", "C", "G", "N", "P",
     "R", "S", "[", "]", "_", "a", "b", "c", "d", "e", "f", "g", "h", "i",
     "k", "l", "m", "n", "o", "p", "q", "r", "s", "t", "u", "v", "w", "x",
     "y", "z" >>

Code(c) == CHOOSE i \in 1..Len(Ascii) : Ascii[i] = c

\* str::cmp / OsStr::cmp: byte-wise lexicographic order, a proper prefix first
RECURSIVE StrLess(_, _)
StrLess(a, b) ==
  IF b = <<>> THEN FALSE
  ELSE IF a = <<>> THEN TRUE
  ELSE IF Head(a) = Head(b) THEN StrLess(Tail(a), Tail(b))
  ELSE Code(Head(a)) < Code(Head(b))

RECURSIVE TrimStart(_)
TrimStart(s) ==
  IF s # <<>> /\ Head(s) = " " THEN TrimStart(Tail(s)) ELSE s

RECURSIVE TrimEnd(_)
TrimEnd(s) ==
  IF s # <<>> /\ s[Len(s)] = " " THEN TrimEnd(SubSeq(s, 1, Len(s) - 1)) ELSE s

Trim(s) == TrimEnd(TrimStart(s))

\* position of the first occurrence of c in s, 0 when there is none
IndexOf(s, c) ==
  IF \E i \in 1..Len(s) : s[i] = c
  THEN CHOOSE i \in 1..Len(s) : s[i] = c /\ \A j \in 1..(i - 1) : s[j] # c
  ELSE 0

\* position of the last occurrence of c in s, 0 when there is none
LastIndexOf(s, c) ==
  IF \E i \in 1..Len(s) : s[i] = c
  THEN CHOOSE i \in 1..Len(s) : s[i] = c /\ \A j \in (i + 1)..Len(s) : s[j] # c
  ELSE 0

\* key.split('.').next_back(): the text after the last '.'
LastSegment(key) == SubSeq(key, LastIndexOf(key, ".") + 1, Len(key))

\* Option<T> is a sequence of length at most one
None == <<>>
Some(x) == <<x>>

\* ------------------------------------------------------------------------
\* Config schema (config.rs)
\* ------------------------------------------------------------------------

S_txindex == <<"t", "x", "i", "n", "d", "e", "x">>
S_prune == <<"p", "r", "u", "n", "e">>
S_server == <<"s", "e", "r", "v", "e", "r">>
S_rpcuser == <<"r", "p", "c", "u", "s", "e", "r">>
S_foo == <<"f", "o", "o">>
S_Core == <<"C", "o", "r", "e">>
S_RPC == <<"R", "P", "C">>
S_Custom == <<"C", "u", "s", "t", "o", "m">>
S_main == <<"m", "a", "i", "n">>
S_test == <<"t", "e", "s", "t">>

\* rows of get_default_schema, in table order: a Boolean and an Integer row
\* of Core, a Boolean and a String row of RPC
get_default_schema ==
  << [key |-> S_txindex, value_type |-> "Boolean", section |-> S_Core,
      default |-> <<"0">>],
     [key |-> S_prune, value_type |-> "Integer", section |-> S_Core,
      default |-> <<"0">>],
     [key |-> S_server, value_type |-> "Boolean", section |-> S_RPC,
      default |-> <<"0">>],
     [key |-> S_rpcuser, value_type |-> "String", section |-> S_RPC,
      default |-> <<>>] >>

SchemaKeys == { get_default_schema[i].key : i \in 1..Len(get_default_schema) }

ConfigEntry(k, v, s, e) == [key |-> k, value |-> v, schema |-> s, enabled |-> e]

\* ------------------------------------------------------------------------
\* Reading the file: Config::builder().add_source(File ... Ini).build()
\* ------------------------------------------------------------------------

\* a file on disk: exists = FALSE is a path whose target is missing,
\* readable = FALSE a file whose bytes cannot be read as text
NoFile == [exists |-> FALSE, readable |-> FALSE, lines |-> <<>>]
FileOf(lines) == [exists |-> TRUE, readable |-> TRUE, lines |-> lines]
Unreadable == [exists |-> TRUE, readable |-> FALSE, lines |-> <<>>]

\* One line of the Ini source: blank, comment, [section] header, or
\* key=value split at the first '=' with both sides trimmed.  A line with
\* no '=' is a syntax error of the source.
IniLine(line) ==
  LET t == Trim(line)
      eq == IndexOf(t, "=")
      close == IndexOf(t, "]")
  IN  IF t = <<>> THEN [kind |-> "blank"]
      ELSE IF Head(t) \in {"#", ";"} THEN [kind |-> "comment"]
      ELSE IF Head(t) = "["
        THEN IF close = 0 THEN [kind |-> "error"]
             ELSE [kind |-> "section", name |-> SubSeq(t, 2, close - 1)]
      ELSE IF eq = 0 THEN [kind |-> "error"]
      ELSE [kind |-> "pair",
            key |-> Trim(SubSeq(t, 1, eq - 1)),
            value |-> Trim(SubSeq(t, eq + 1, Len(t)))]

\* The properties of the source in file order, each with the table it lands
\* in: a key of the general section is set through its path, so "test.k"
\* lands in table "test" as "k"; a key under a [section] header is kept
\* verbatim in that section's table.
RECURSIVE IniLoad(_, _, _)
IniLoad(lines, sec, props) ==
  IF lines = <<>> THEN [ok |-> TRUE, props |-> props]
  ELSE LET l == IniLine(Head(lines))
       IN  CASE l.kind = "error" -> [ok |-> FALSE, props |-> <<>>]
             [] l.kind = "section" -> IniLoad(Tail(lines), l.name, props)
             [] l.kind = "pair" ->
                  LET dot == IndexOf(l.key, ".")
                      p == IF sec = <<>> /\ dot > 0
                           THEN [table |-> SubSeq(l.key, 1, dot - 1),
                                 key |-> SubSeq(l.key, dot + 1, Len(l.key)),
                                 value |-> l.value]
                           ELSE [table |-> sec, key |-> l.key, value |-> l.value]
                  IN  IniLoad(Tail(lines), sec, Append(props, p))
             [] OTHER -> IniLoad(Tail(lines), sec, props)

\* builder.build(): no source when the path does not exist; a source that
\* cannot be read or parsed is an Err
BuildConfig(file) ==
  IF ~file.exists THEN [ok |-> TRUE, props |-> <<>>]
  ELSE IF ~file.readable THEN [ok |-> FALSE, props |-> <<>>]
  ELSE IniLoad(file.lines, <<>>, <<>>)

\* config.get_string("key") / config.get_string("table.key"): the value
\* set last for that path, None when the path is not set
get_string(config, table, key) ==
  LET hits == { i \in 1..Len(config.props) :
                  config.props[i].table = table /\ config.props[i].key = key }
  IN  IF hits = {} THEN None
      ELSE Some(config.props[CHOOSE i \in hits : \A j \in hits : j <= i].value)

\* config.get_table(section).keys(); the empty path "" is not a valid path
\* expression, so get_table("") is an Err and yields no keys
get_table_keys(config, table) ==
  IF table = <<>> THEN {}
  ELSE { config.props[i].key :
           i \in { j \in 1..Len(config.props) : config.props[j].table = table } }

\* ------------------------------------------------------------------------
\* parse_config (config.rs)
\* ------------------------------------------------------------------------

\* the tables parse_config looks into, "" first
\* "", "main", "test", "signet", "regtest"
NetworkSections ==
  << <<>>, S_main, S_test, <<"s", "i", "g", "n", "e", "t">>,
     <<"r", "e", "g", "t", "e", "s", "t">> >>

\* the keys of the tables that could be read, reduced to their last segment
config_keys(config) ==
  UNION { { IF IndexOf(key, ".") > 0 THEN LastSegment(key) ELSE key :
              key \in get_table_keys(config, NetworkSections[i]) } :
          i \in 1..Len(NetworkSections) }

\* the first table, in NetworkSections order, that sets the key
RECURSIVE LookupSchemaKey(_, _, _)
LookupSchemaKey(config, key, i) ==
  IF i > Len(NetworkSections) THEN None
  ELSE LET val == get_string(config, NetworkSections[i], key)
       IN  IF val # None THEN val ELSE LookupSchemaKey(config, key, i + 1)

\* fault variant of KnownEntries: a key that is found keeps the schema default
KnownEntriesKeepDefault(config) ==
  [ i \in 1..Len(get_default_schema) |->
      LET schema == get_default_schema[i]
          val == LookupSchemaKey(config, schema.key, 1)
      IN  ConfigEntry(schema.key, schema.default, Some(schema), val # None) ]

\* fault variant of KnownEntries: a key that is not found is still enabled
KnownEntriesAllEnabled(config) ==
  [ i \in 1..Len(get_default_schema) |->
      LET schema == get_default_schema[i]
          val == LookupSchemaKey(config, schema.key, 1)
      IN  ConfigEntry(schema.key,
                      IF val # None THEN val[1] ELSE schema.default,
                      Some(schema), TRUE) ]

\* one entry per schema row: the value found, or the disabled default
KnownEntries(config) ==
  [ i \in 1..Len(get_default_schema) |->
      LET schema == get_default_schema[i]
          val == LookupSchemaKey(config, schema.key, 1)
      IN  IF val # None
          THEN ConfigEntry(schema.key, val[1], Some(schema), TRUE)
          ELSE ConfigEntry(schema.key, schema.default, Some(schema), FALSE) ]

found_keys(config) ==
  { get_default_schema[i].key :
      i \in { j \in 1..Len(get_default_schema) :
                LookupSchemaKey(config, get_default_schema[j].key, 1) # None } }

UnknownKeys(config) == config_keys(config) \ found_keys(config)

\* the entry of an unknown key: its value is read at the root path
UnknownEntry(config, config_key) ==
  LET val == get_string(config, <<>>, config_key)
  IN  ConfigEntry(config_key, IF val # None THEN val[1] ELSE <<>>, None, TRUE)

\* the orders in which the HashSet of unknown keys can be iterated
KeyOrders(keys) ==
  { ord \in [1..Cardinality(keys) -> keys] :
      \A i, j \in 1..Cardinality(keys) : i # j => ord[i] # ord[j] }

DefaultEntries ==
  [ i \in 1..Len(get_default_schema) |->
      ConfigEntry(get_default_schema[i].key, get_default_schema[i].default,
                  Some(get_default_schema[i]), FALSE) ]

\* parse_config(path), the unknown keys iterated in the order ord
parse_config(file, ord) ==
  LET config == BuildConfig(file)
  IN  IF ~config.ok THEN DefaultEntries
      ELSE KnownEntries(config) \o
           [ i \in 1..Len(ord) |-> UnknownEntry(config, ord[i]) ]

ParseOrders(file) ==
  LET config == BuildConfig(file)
  IN  IF ~config.ok THEN { <<>> } ELSE KeyOrders(UnknownKeys(config))

\* ------------------------------------------------------------------------
\* App::load_config and App::save_config (app.rs)
\* ------------------------------------------------------------------------

SectionNameOf(entry) ==
  IF entry.schema # None THEN entry.schema[1].section ELSE S_Custom

IsNamed(name, entry) == SectionNameOf(entry) = name

\* fault variant of SortSections: the comparison is the other way round
RECURSIVE SortSectionsReversed(_)
SortSectionsReversed(secs) ==
  IF secs = {} THEN <<>>
  ELSE LET m == CHOOSE x \in secs :
                  \A y \in secs \ {x} : ~StrLess(x.name, y.name)
       IN  <<m>> \o SortSectionsReversed(secs \ {m})

\* sections.sort_by(|a, b| a.name.cmp(&b.name)) over the map's sections
RECURSIVE SortSections(_)
SortSections(secs) ==
  IF secs = {} THEN <<>>
  ELSE LET m == CHOOSE x \in secs :
                  \A y \in secs \ {x} : ~StrLess(y.name, x.name)
       IN  <<m>> \o SortSections(secs \ {m})

\* the sections built from the parsed entries: one per section name, its
\* items in entry order, the sections sorted by name
GroupSections(entries) ==
  LET names == { SectionNameOf(entries[i]) : i \in 1..Len(entries) }
  IN  SortSections({ [name |-> n,
                      items |-> SelectSeq(entries, LAMBDA e : IsNamed(n, e))] :
                     n \in names })

\* the text of one saved line
SectionHeader(name) ==
  <<"#", " ", "S", "e", "c", "t", "i", "o", "n", ":", " ">> \o name

EntryLine(entry) == entry.key \o <<"=">> \o entry.value

\* fault variant of EnabledLines: the enabled flag is not looked at
EnabledLinesUnfiltered(items) ==
  [ i \in 1..Len(items) |-> EntryLine(items[i]) ]

RECURSIVE EnabledLines(_)
EnabledLines(items) ==
  IF items = <<>> THEN <<>>
  ELSE (IF Head(items).enabled THEN << EntryLine(Head(items)) >> ELSE <<>>)
       \o EnabledLines(Tail(items))

AnyEnabled(items) == \E i \in 1..Len(items) : items[i].enabled

\* the content save_config writes, as its lines
RECURSIVE SerializeSections(_)
SerializeSections(secs) ==
  IF secs = <<>> THEN <<>>
  ELSE (IF AnyEnabled(Head(secs).items)
        THEN << SectionHeader(Head(secs).name) >>
             \o EnabledLines(Head(secs).items) \o << <<>> >>
        ELSE <<>>)
       \o SerializeSections(Tail(secs))

\* ------------------------------------------------------------------------
\* parse_p2pool_config (components/p2pool_parser.rs)
\* ------------------------------------------------------------------------

\* str::starts_with
StartsWith(s, p) == Len(s) >= Len(p) /\ SubSeq(s, 1, Len(p)) = p

\* str::contains
StrContains(s, p) ==
  \E i \in 1..(Len(s) - Len(p) + 1) : SubSeq(s, i, i + Len(p) - 1) = p

\* the categorization rules in the order of the if-else chain: the section
\* title, the words of its key.contains tests and of its key.starts_with test
P2PoolRules ==
  << [title |-> <<"A", "u", "t", "h", "e", "n", "t", "i", "c", "a", "t", "i", "o", "n">>,
      contains |-> { <<"u", "s", "e", "r">>,
                     <<"p", "a", "s", "s">>,
                     <<"a", "u", "t", "h">> },
      starts_with |-> {}],
     [title |-> <<"B", "i", "t", "c", "o", "i", "n", " ", "N", "o", "d", "e">>,
      contains |-> {},
      starts_with |-> { <<"b", "i", "t", "c", "o", "i", "n", "d">> }],
     [title |-> <<"N", "e", "t", "w", "o", "r", "k">>,
      contains |-> { <<"p", "o", "r", "t">>,
                     <<"a", "d", "d", "r", "e", "s", "s">>,
                     <<"l", "i", "s", "t", "e", "n">> },
      starts_with |-> {}],
     [title |-> <<"P", "a", "y", "o", "u", "t", "s">>,
      contains |-> { <<"p", "a", "y", "o", "u", "t">>,
                     <<"w", "a", "l", "l", "e", "t">> },
      starts_with |-> {}] >>

\* the title of the final else
S_GeneralSettings ==
  <<"G", "e", "n", "e", "r", "a", "l", " ", "S", "e", "t", "t", "i", "n", "g", "s">>

\* the title of the first rule, from rule i on, that the key matches
RECURSIVE FirstRule(_, _, _)
FirstRule(rules, key, i) ==
  IF i > Len(rules) THEN S_GeneralSettings
  ELSE IF \/ \E w \in rules[i].contains : StrContains(key, w)
          \/ \E w \in rules[i].starts_with : StartsWith(key, w)
  THEN rules[i].title
  ELSE FirstRule(rules, key, i + 1)

\* fault variant of P2PoolSection: the payout rule is tried before the
\* network rule
P2PoolSectionPayoutsFirst(key) ==
  FirstRule(<< P2PoolRules[1], P2PoolRules[2], P2PoolRules[4], P2PoolRules[3] >>,
            key, 1)

\* the section of a key
P2PoolSection(key) == FirstRule(P2PoolRules, key, 1)

ConfigField(k, v) == [key |-> k, value |-> v]

\* one line: skipped when empty or a '#' comment, split at the first '=' with
\* both sides trimmed, and skipped as well when it has no '='
P2PoolLine(line) ==
  LET trimmed == Trim(line)
      eq == IndexOf(trimmed, "=")
  IN  IF trimmed = <<>> \/ Head(trimmed) = "#" THEN None
      ELSE IF eq = 0 THEN None
      ELSE Some(ConfigField(Trim(SubSeq(trimmed, 1, eq - 1)),
                            Trim(SubSeq(trimmed, eq + 1, Len(trimmed)))))

\* the fields of the lines, in file order
RECURSIVE P2PoolFields(_)
P2PoolFields(lines) ==
  IF lines = <<>> THEN <<>>
  ELSE P2PoolLine(Head(lines)) \o P2PoolFields(Tail(lines))

\* sections.sort_by(|a, b| a.title.cmp(&b.title)) over the map's sections
RECURSIVE SortByTitle(_)
SortByTitle(secs) ==
  IF secs = {} THEN <<>>
  ELSE LET m == CHOOSE x \in secs :
                  \A y \in secs \ {x} : ~StrLess(y.title, x.title)
       IN  <<m>> \o SortByTitle(secs \ {m})

\* parse_p2pool_config(path): Err when the file cannot be opened or read
parse_p2pool_config(file) ==
  IF ~file.exists \/ ~file.readable THEN [ok |-> FALSE, sections |-> <<>>]
  ELSE LET fields == P2PoolFields(file.lines)
           titles == { P2PoolSection(fields[i].key) : i \in 1..Len(fields) }
       IN  [ok |-> TRUE,
            sections |->
              SortByTitle({ [title |-> t,
                             fields |-> SelectSeq(fields,
                                          LAMBDA f : P2PoolSection(f.key) = t)] :
                            t \in titles })]

\* ------------------------------------------------------------------------
\* The file system the session runs on
\* ------------------------------------------------------------------------

\* A path is the sequence of its components; <<>> is the root directory.
DotDot == <<".", ".">>

\* the process working directory: the root, the directory without a parent
WorkDir == <<>>

VARIABLE tree   \* the directories and the non-directory entries on disk

\* the tree of the editing session: the directories / and /d, and /c
SessionTree == [dirs |-> { <<>>, << <<"d">> >> }, files |-> { << <<"c">> >> }]

Dirs == tree.dirs

\* /c is the one non-directory entry of the session's tree: a regular file,
\* or a link whose target is missing
ConfPath == << <<"c">> >>
FilePaths == tree.files

\* std::fs::read_dir(dir), as the set of the paths of its entries
ReadDir(dir) ==
  { p \in Dirs \cup FilePaths : Len(p) = Len(dir) + 1
                                  /\ SubSeq(p, 1, Len(dir)) = dir }

\* Path::parent
HasParent(path) == path # <<>>
Parent(path) == SubSeq(path, 1, Len(path) - 1)

\* Path::ends_with("..")
EndsWithDotDot(path) == path # <<>> /\ path[Len(path)] = DotDot

\* Path::is_dir: "dir/.." resolves to the parent directory
is_dir(path) ==
  IF EndsWithDotDot(path) THEN Parent(path) \in Dirs ELSE path \in Dirs

\* Path::file_name: None for a path that ends in ".."
file_name(path) ==
  IF path = <<>> \/ EndsWithDotDot(path) THEN None ELSE Some(path[Len(path)])

\* Option<&OsStr>::cmp: None sorts before every Some
NameLess(a, b) ==
  IF b = None THEN FALSE
  ELSE IF a = None THEN TRUE
  ELSE StrLess(a[1], b[1])

\* the comparator of refresh_files: directories first, then by file name
FileLess(a, b) ==
  IF is_dir(a) /\ ~is_dir(b) THEN TRUE
  ELSE IF ~is_dir(a) /\ is_dir(b) THEN FALSE
  ELSE NameLess(file_name(a), file_name(b))

RECURSIVE SortFiles(_)
SortFiles(paths) ==
  IF paths = {} THEN <<>>
  ELSE LET m == CHOOSE x \in paths : \A y \in paths \ {x} : ~FileLess(y, x)
       IN  <<m>> \o SortFiles(paths \ {m})

\* ------------------------------------------------------------------------
\* ListState and FileExplorerState (app.rs)
\* ------------------------------------------------------------------------

ListStateDefault == [selected |-> None, offset |-> 0]

\* ListState::select: selecting None also resets the offset
ListSelect(state, index) ==
  [selected |-> index, offset |-> IF index = None THEN 0 ELSE state.offset]

\* fault variant of refresh_files: the selection is never clamped
refresh_filesUnclamped(fe) ==
  LET files == SortFiles((IF HasParent(fe.current_dir)
                          THEN { fe.current_dir \o <<DotDot>> } ELSE {})
                         \cup ReadDir(fe.current_dir))
      selected == IF fe.list_state.selected = None THEN 0
                  ELSE fe.list_state.selected[1]
  IN  [fe EXCEPT
         !.files = files,
         !.list_state =
            IF files = <<>> THEN ListSelect(fe.list_state, None)
            ELSE ListSelect(fe.list_state, Some(selected))]

\* FileExplorerState::refresh_files
refresh_files(fe) ==
  LET files == SortFiles((IF HasParent(fe.current_dir)
                          THEN { fe.current_dir \o <<DotDot>> } ELSE {})
                         \cup ReadDir(fe.current_dir))
      selected == IF fe.list_state.selected = None THEN 0
                  ELSE fe.list_state.selected[1]
  IN  [fe EXCEPT
         !.files = files,
         !.list_state =
            IF files = <<>> THEN ListSelect(fe.list_state, None)
            ELSE IF selected >= Len(files)
              THEN ListSelect(fe.list_state, Some(Len(files) - 1))
            ELSE ListSelect(fe.list_state, Some(selected))]

FileExplorerStateNew ==
  LET state == refresh_files([current_dir |-> WorkDir, files |-> <<>>,
                              list_state |-> ListStateDefault])
  IN  [state EXCEPT !.list_state = ListSelect(state.list_state, Some(0))]

select_next(fe) ==
  IF fe.files = <<>> THEN fe
  ELSE LET i == IF fe.list_state.selected = None THEN 0
                ELSE IF fe.list_state.selected[1] >= Len(fe.files) - 1 THEN 0
                ELSE fe.list_state.selected[1] + 1
       IN  [fe EXCEPT !.list_state = ListSelect(fe.list_state, Some(i))]

select_previous(fe) ==
  IF fe.files = <<>> THEN fe
  ELSE LET i == IF fe.list_state.selected = None THEN 0
                ELSE IF fe.list_state.selected[1] = 0 THEN Len(fe.files) - 1
                ELSE fe.list_state.selected[1] - 1
       IN  [fe EXCEPT !.list_state = ListSelect(fe.list_state, Some(i))]

\* ------------------------------------------------------------------------
\* The frame: ui() (ui.rs)
\* ------------------------------------------------------------------------

\* size of the terminal the frames are drawn on
TermWidth == 80
TermHeight == 9

Rect(x, y, w, h) == [x |-> x, y |-> y, width |-> w, height |-> h]

\* Rect::contains(Position)
Contains(rect, column, row) ==
  /\ column >= rect.x /\ column < rect.x + rect.width
  /\ row >= rect.y /\ row < rect.y + rect.height

\* main content: right of the 25-column sidebar, above the 3-row footer
ContentArea == Rect(25, 0, TermWidth - 25, TermHeight - 3)

\* the "Load Bitcoin Config" button: 3 rows high, in the middle 40% of the
\* width, below the upper 40% of the bordered content area
ButtonRect ==
  LET inner == Rect(ContentArea.x + 1, ContentArea.y + 1,
                    ContentArea.width - 2, ContentArea.height - 2)
  IN  Rect(inner.x + (inner.width * 30) \div 100,
           inner.y + (inner.height * 40) \div 100,
           (inner.width * 40) \div 100, 3)

TabsRect == Rect(ContentArea.x, ContentArea.y, ContentArea.width, 3)

ConfigListRect ==
  Rect(ContentArea.x, ContentArea.y + 3,
       ContentArea.width \div 2, ContentArea.height - 3)

InteractiveRectsDefault ==
  [select_config_button |-> None, file_list |-> None,
   tabs |-> None, config_list |-> None]

\* rendering a List with its state: the offset follows the selection so
\* that the selected row is inside the bordered area
RenderList(state, area) ==
  LET height == area.height - 2
      sel == IF state.selected = None THEN state.offset ELSE state.selected[1]
  IN  [state EXCEPT
         !.offset = IF sel >= state.offset + height THEN sel - height + 1
                    ELSE IF sel < state.offset THEN sel
                    ELSE state.offset]

\* the rectangles after drawing the frame of screen: a slot is written only
\* by the widget drawn, every other slot keeps its previous value
ui_rects(rects, screen, secs) ==
  CASE screen = "Home" -> rects
    [] screen = "BitcoinConfig" ->
         [rects EXCEPT !.select_config_button = Some(ButtonRect)]
    [] screen = "FileExplorer" ->
         [rects EXCEPT !.file_list = Some(ContentArea)]
    [] OTHER ->
         IF secs = <<>> THEN [rects EXCEPT !.tabs = Some(TabsRect)]
         ELSE [rects EXCEPT !.tabs = Some(TabsRect),
                            !.config_list = Some(ConfigListRect)]

ui_file_explorer(fe, screen) ==
  IF screen = "FileExplorer"
  THEN [fe EXCEPT !.list_state = RenderList(fe.list_state, ContentArea)]
  ELSE fe

ui_config_list(state, screen, secs) ==
  IF screen \in {"Editing", "EditingValue"} /\ secs # <<>>
  THEN RenderList(state, ConfigListRect)
  ELSE state

\* ------------------------------------------------------------------------
\* The session: App (app.rs)
\* ------------------------------------------------------------------------

VARIABLES
  current_screen,            \* CurrentScreen
  sidebar_index,             \* usize
  config_flow_return_screen, \* CurrentScreen
  sections,                  \* Vec<ConfigSection>
  selected_section_index,    \* usize
  selected_item_index,       \* usize
  editing_value,             \* String
  config_list_state,         \* ListState
  config_file_path,          \* Option<String>
  notification,              \* Option<String>
  interactive_rects,         \* InteractiveRects
  file_explorer,             \* FileExplorerState
  running,                   \* bool
  fs,                        \* the files on disk, by path
  edits,                     \* entry mutations made so far (exploration bound)
  p2pool_file,               \* the file at the path given to parse_p2pool_config
  p2pool_parsed,             \* io::Result<Vec<ConfigSection>> it returned, if called
  app                        \* the App that run_app drives, None when it is not run

vars ==
  << current_screen, sidebar_index, config_flow_return_screen, sections,
     selected_section_index, selected_item_index, editing_value,
     config_list_state, config_file_path, notification, interactive_rects,
     file_explorer, running, fs, edits, p2pool_file, p2pool_parsed, tree,
     app >>

\* the variables no event of the editing session touches: those of the
\* p2pool parser, the directory tree, and the App of run_app
parser_vars == << p2pool_file, p2pool_parsed, tree, app >>

SavedNote == "Configuration saved successfully."

\* --- input events -------------------------------------------------------

\* the key presses explored: F1 stands for the keys no screen binds, the
\* characters typed without a modifier are the space and 'q', and Ctrl+S is
\* the save chord
Keys ==
  [code : {"Esc", "Enter", "Up", "Down", "Left", "Right", "Tab", "BackTab",
           "Backspace", "F1"},
   ch : {""}, ctrl : {FALSE}]
  \cup [code : {"Char"}, ch : {" ", "q"}, ctrl : {FALSE}]
  \cup [code : {"Char"}, ch : {"s"}, ctrl : {TRUE}]

IsChar(key, c) == key.code = "Char" /\ key.ch = c

is_ctrl_s(key) == key.ctrl /\ IsChar(key, "s")

\* pointer events, at sampled positions: a corner, the button, the top
\* border and rows of the lists, and on the tab row the three tabs, a gap
\* and the far end
MouseEvents ==
  { [kind |-> "DownLeft", column |-> p[1], row |-> p[2]] :
      p \in { <<0, 0>>, <<50, 3>>, <<30, 0>>, <<30, 4>>, <<30, 2>>, <<30, 1>>,
              <<33, 1>>, <<35, 1>>, <<46, 1>>, <<79, 1>> } }
  \cup { [kind |-> "DownRight", column |-> 50, row |-> 3],
         [kind |-> "DownRight", column |-> 35, row |-> 1] }

\* --- contents the configuration file can start with ----------------------

\* " txindex = a " / [main] / foo=q
TextSectioned ==
  << <<" ">> \o S_txindex \o <<" ", "=", " ", "a", " ">>,
     <<"[">> \o S_main \o <<"]">>,
     S_foo \o <<"=", "q">> >>

\* the files parse_config is explored on: bitcoin.conf texts with keys at the
\* top level and under network sections, plain and dotted, the empty file,
\* the path whose target is missing, and a file that cannot be read
ParseFiles ==
  { FileOf(TextSectioned),
    \* "# c" / "" / txindex=1 / foo=q
    FileOf(<< <<"#", " ", "c">>, <<>>, S_txindex \o <<"=", "1">>,
              S_foo \o <<"=", "q">> >>),
    \* prune=0 / "prune= 1" / rpcuser=
    FileOf(<< S_prune \o <<"=", "0">>, S_prune \o <<"=", " ", "1">>,
              S_rpcuser \o <<"=">> >>),
    \* [test] / rpcuser=q / [main] / rpcuser=a / foo=q / bar=0
    FileOf(<< <<"[">> \o S_test \o <<"]">>, S_rpcuser \o <<"=", "q">>,
              <<"[">> \o S_main \o <<"]">>, S_rpcuser \o <<"=", "a">>,
              S_foo \o <<"=", "q">>, <<"b", "a", "r", "=", "0">> >>),
    \* test.prune=1 / "txindex=0 "
    FileOf(<< S_test \o <<".">> \o S_prune \o <<"=", "1">>,
              S_txindex \o <<"=", "0", " ">> >>),
    \* "; c"
    FileOf(<< <<";", " ", "c">> >>),
    \* [main] / test.prune=1
    FileOf(<< <<"[">> \o S_main \o <<"]">>,
              S_test \o <<".">> \o S_prune \o <<"=", "1">> >>),
    FileOf(<<>>), NoFile, Unreadable }

\* --- App::new and the first frame ----------------------------------------

Init ==
  /\ tree = SessionTree
  /\ app = None
  /\ current_screen = "Home"
  /\ sidebar_index = 0
  /\ config_flow_return_screen = "Home"
  /\ sections = <<>>
  /\ selected_section_index = 0
  /\ selected_item_index = 0
  /\ editing_value = <<>>
  /\ config_list_state = ListStateDefault
  /\ config_file_path = None
  /\ notification = None
  /\ interactive_rects = InteractiveRectsDefault
  /\ file_explorer = FileExplorerStateNew
  /\ running = TRUE
  /\ fs = [p \in FilePaths |-> FileOf(TextSectioned)]
  /\ edits = 0
  /\ p2pool_file = NoFile
  /\ p2pool_parsed = None

\* the frame drawn after the event was handled: fe and cls are the explorer
\* and the config list state the handler left
Draw(fe, cls) ==
  /\ interactive_rects' = ui_rects(interactive_rects, current_screen', sections')
  /\ file_explorer' = ui_file_explorer(fe, current_screen')
  /\ config_list_state' = ui_config_list(cls, current_screen', sections')

\* the notification is cleared by every key but the save chord
ClearedNotification(key) == IF is_ctrl_s(key) THEN notification ELSE None

\* --- helpers of the Editing arms -----------------------------------------

HasEntry(secs, si, ii) == si < Len(secs) /\ ii < Len(secs[si + 1].items)

EntryAt(secs, si, ii) == secs[si + 1].items[ii + 1]

SetEntry(secs, si, ii, entry) == [secs EXCEPT ![si + 1].items[ii + 1] = entry]

\* fault variant of NextSectionIndex: stops at the last section
NextSectionIndexClamped(secs, si) == IF si < Len(secs) - 1 THEN si + 1 ELSE si

\* Right | Tab
NextSectionIndex(secs, si) == IF si < Len(secs) - 1 THEN si + 1 ELSE 0

\* Left | BackTab
PreviousSectionIndex(secs, si) == IF si > 0 THEN si - 1 ELSE Len(secs) - 1

\* fault variant of DownItemIndex: no check against the item count
DownItemIndexUnchecked(secs, si, ii) == ii + 1

\* Down: one further unless on the last item
DownItemIndex(secs, si, ii) ==
  IF si < Len(secs) /\ secs[si + 1].items # <<>>
     /\ ii < Len(secs[si + 1].items) - 1
  THEN ii + 1 ELSE ii

\* Up: one back unless on the first item
UpItemIndex(ii) == IF ii > 0 THEN ii - 1 ELSE ii

IsBoolean(entry) ==
  entry.schema # None /\ entry.schema[1].value_type = "Boolean"

\* fault variant of FlipBoolean: the value is set, never cleared
FlipBooleanSetOnly(entry) == [entry EXCEPT !.value = <<"1">>, !.enabled = TRUE]

\* Enter on a Boolean entry
FlipBoolean(entry) ==
  [entry EXCEPT !.value = IF entry.value = <<"1">> THEN <<"0">> ELSE <<"1">>,
                !.enabled = TRUE]

\* Space
ToggleEnabled(entry) == [entry EXCEPT !.enabled = ~entry.enabled]

\* fault variant of CommitEdit: the entry is not enabled
CommitEditValueOnly(entry, buffer) == [entry EXCEPT !.value = buffer]

\* Enter / save chord in EditingValue
CommitEdit(entry, buffer) == [entry EXCEPT !.value = buffer, !.enabled = TRUE]

\* fault variant of PopChar: String::clear in place of String::pop
PopCharAll(buffer) == <<>>

\* String::pop
PopChar(buffer) ==
  IF buffer = <<>> THEN buffer ELSE SubSeq(buffer, 1, Len(buffer) - 1)

\* --- key events on Home and BitcoinConfig --------------------------------

\* toggle_menu
toggle_menu(index, screen) ==
  CASE index = 0 -> "Home"
    [] index = 1 -> "BitcoinConfig"
    [] OTHER -> screen

\* Up / Down on a sidebar screen moves the menu (run_app, main.rs)
MenuKey(key) ==
  /\ running
  /\ UNCHANGED parser_vars
  /\ current_screen \in {"Home", "BitcoinConfig"}
  /\ key.code \in {"Up", "Down"}
  /\ sidebar_index' =
       IF key.code = "Up"
       THEN (IF sidebar_index > 0 THEN sidebar_index - 1 ELSE sidebar_index)
       ELSE (IF sidebar_index < 2 THEN sidebar_index + 1 ELSE sidebar_index)
  /\ current_screen' =
       IF sidebar_index' # sidebar_index
       THEN toggle_menu(sidebar_index', current_screen) ELSE current_screen
  /\ notification' = ClearedNotification(key)
  /\ UNCHANGED << config_flow_return_screen, sections, selected_section_index,
                  selected_item_index, editing_value, config_file_path,
                  running, fs, edits >>
  /\ Draw(file_explorer, config_list_state)

\* Home: 'q' and Esc stop the session
HomeKey(key) ==
  /\ running
  /\ UNCHANGED parser_vars
  /\ current_screen = "Home"
  /\ key.code \notin {"Up", "Down"}
  /\ running' = ~(IsChar(key, "q") \/ key.code = "Esc")
  /\ notification' = ClearedNotification(key)
  /\ UNCHANGED << current_screen, sidebar_index, config_flow_return_screen,
                  sections, selected_section_index, selected_item_index,
                  editing_value, config_file_path, fs, edits >>
  /\ Draw(file_explorer, config_list_state)

\* fault variant of BitcoinConfigEnter: the screen to return to is not
\* recorded
BitcoinConfigEnterNoReturn(key) ==
  /\ running
  /\ UNCHANGED parser_vars
  /\ current_screen = "BitcoinConfig"
  /\ key.code = "Enter"
  /\ current_screen' = "FileExplorer"
  /\ notification' = ClearedNotification(key)
  /\ UNCHANGED << sidebar_index, config_flow_return_screen, sections,
                  selected_section_index, selected_item_index, editing_value,
                  config_file_path, running, fs, edits >>
  /\ Draw(refresh_files(file_explorer), config_list_state)

\* BitcoinConfig: Enter opens the explorer
BitcoinConfigEnter(key) ==
  /\ running
  /\ UNCHANGED parser_vars
  /\ current_screen = "BitcoinConfig"
  /\ key.code = "Enter"
  /\ config_flow_return_screen' = current_screen
  /\ current_screen' = "FileExplorer"
  /\ notification' = ClearedNotification(key)
  /\ UNCHANGED << sidebar_index, sections, selected_section_index,
                  selected_item_index, editing_value, config_file_path,
                  running, fs, edits >>
  /\ Draw(refresh_files(file_explorer), config_list_state)

\* --- key events on FileExplorer ------------------------------------------

\* fault variant of ExplorerEsc: the explorer always closes to Home
ExplorerEscHome(key) ==
  /\ running
  /\ UNCHANGED parser_vars
  /\ current_screen = "FileExplorer"
  /\ key.code = "Esc"
  /\ current_screen' = "Home"
  /\ notification' = ClearedNotification(key)
  /\ UNCHANGED << sidebar_index, config_flow_return_screen, sections,
                  selected_section_index, selected_item_index, editing_value,
                  config_file_path, running, fs, edits >>
  /\ Draw(file_explorer, config_list_state)

\* Esc closes the explorer
ExplorerEsc(key) ==
  /\ running
  /\ UNCHANGED parser_vars
  /\ current_screen = "FileExplorer"
  /\ key.code = "Esc"
  /\ current_screen' = config_flow_return_screen
  /\ notification' = ClearedNotification(key)
  /\ UNCHANGED << sidebar_index, config_flow_return_screen, sections,
                  selected_section_index, selected_item_index, editing_value,
                  config_file_path, running, fs, edits >>
  /\ Draw(file_explorer, config_list_state)

ExplorerMove(key) ==
  /\ running
  /\ UNCHANGED parser_vars
  /\ current_screen = "FileExplorer"
  /\ key.code \in {"Up", "Down"}
  /\ notification' = ClearedNotification(key)
  /\ UNCHANGED << current_screen, sidebar_index, config_flow_return_screen,
                  sections, selected_section_index, selected_item_index,
                  editing_value, config_file_path, running, fs, edits >>
  /\ Draw(IF key.code = "Up" THEN select_previous(file_explorer)
          ELSE select_next(file_explorer), config_list_state)

\* the entry Enter acts on, None when nothing valid is selected
ExplorerSelected ==
  IF file_explorer.list_state.selected # None
     /\ file_explorer.list_state.selected[1] < Len(file_explorer.files)
  THEN Some(file_explorer.files[file_explorer.list_state.selected[1] + 1])
  ELSE None

IsParentMarker(path) == file_name(path) = Some(DotDot) \/ EndsWithDotDot(path)

\* Enter on the parent marker or on a directory: navigate in place
ExplorerEnterDir(key) ==
  /\ running
  /\ UNCHANGED parser_vars
  /\ current_screen = "FileExplorer"
  /\ key.code = "Enter"
  /\ ExplorerSelected # None
  /\ notification' = ClearedNotification(key)
  /\ UNCHANGED << current_screen, sidebar_index, config_flow_return_screen,
                  sections, selected_section_index, selected_item_index,
                  editing_value, config_file_path, running, fs, edits >>
  /\ LET selected == ExplorerSelected[1]
         dir == file_explorer.current_dir
         target == IF IsParentMarker(selected)
                   THEN (IF HasParent(dir) THEN Some(Parent(dir)) ELSE None)
                   ELSE Some(selected)
     IN  /\ IsParentMarker(selected) \/ is_dir(selected)
         /\ Draw(IF target = None THEN file_explorer
                 ELSE refresh_files(
                        [file_explorer EXCEPT
                           !.current_dir = target[1],
                           !.list_state = ListSelect(@, Some(0))]),
                 config_list_state)

\* App::load_config never fails here: parse_config maps every build error
\* to the schema defaults
load_config(file, ord) == GroupSections(parse_config(file, ord))

\* fault variant of ExplorerEnterFile: the load leaves the cursors where
\* they are
ExplorerEnterFileKeepCursors(key) ==
  /\ running
  /\ UNCHANGED parser_vars
  /\ current_screen = "FileExplorer"
  /\ key.code = "Enter"
  /\ ExplorerSelected # None
  /\ LET selected == ExplorerSelected[1]
     IN  /\ ~IsParentMarker(selected) /\ ~is_dir(selected)
         /\ config_file_path' = Some(selected)
         /\ \E ord \in ParseOrders(fs[selected]) :
              sections' = load_config(fs[selected], ord)
  /\ current_screen' = "Editing"
  /\ notification' = ClearedNotification(key)
  /\ UNCHANGED << sidebar_index, config_flow_return_screen, editing_value,
                  selected_section_index, selected_item_index, running, fs,
                  edits >>
  /\ Draw(file_explorer, config_list_state)

\* fault variant of ExplorerEnterFile: the path is not remembered
ExplorerEnterFileNoPath(key) ==
  /\ running
  /\ UNCHANGED parser_vars
  /\ current_screen = "FileExplorer"
  /\ key.code = "Enter"
  /\ ExplorerSelected # None
  /\ LET selected == ExplorerSelected[1]
     IN  /\ ~IsParentMarker(selected) /\ ~is_dir(selected)
         /\ config_file_path' = config_file_path
         /\ \E ord \in ParseOrders(fs[selected]) :
              sections' = load_config(fs[selected], ord)
  /\ selected_section_index' = 0
  /\ selected_item_index' = 0
  /\ current_screen' = "Editing"
  /\ notification' = ClearedNotification(key)
  /\ UNCHANGED << sidebar_index, config_flow_return_screen, editing_value,
                  running, fs, edits >>
  /\ Draw(file_explorer, ListSelect(config_list_state, Some(0)))

\* Enter on a file: remember its path, load it, go to Editing
ExplorerEnterFile(key) ==
  /\ running
  /\ UNCHANGED parser_vars
  /\ current_screen = "FileExplorer"
  /\ key.code = "Enter"
  /\ ExplorerSelected # None
  /\ LET selected == ExplorerSelected[1]
     IN  /\ ~IsParentMarker(selected) /\ ~is_dir(selected)
         /\ config_file_path' = Some(selected)
         /\ \E ord \in ParseOrders(fs[selected]) :
              sections' = load_config(fs[selected], ord)
  /\ selected_section_index' = 0
  /\ selected_item_index' = 0
  /\ current_screen' = "Editing"
  /\ notification' = ClearedNotification(key)
  /\ UNCHANGED << sidebar_index, config_flow_return_screen, editing_value,
                  running, fs, edits >>
  /\ Draw(file_explorer, ListSelect(config_list_state, Some(0)))

\* --- App::save_config ------------------------------------------------------

\* the files after save_config: the write replaces the content of the path,
\* or fails and leaves the disk as it is
FilesAfterSave(files, path, secs, write_ok) ==
  IF path # None /\ write_ok
  THEN [files EXCEPT ![path[1]] = FileOf(SerializeSections(secs))]
  ELSE files

\* fault variant of NotificationAfterSave: the confirmation is never set
NotificationAfterSaveSilent(note, path, write_ok) == note

\* the notification after save_config: set only past a successful write
NotificationAfterSave(note, path, write_ok) ==
  IF path # None /\ write_ok THEN Some(SavedNote) ELSE note

\* --- key events on Editing -----------------------------------------------

\* the save chord: save_config, nothing else
EditingSave(key, write_ok) ==
  /\ running
  /\ UNCHANGED parser_vars
  /\ current_screen = "Editing"
  /\ is_ctrl_s(key)
  /\ fs' = FilesAfterSave(fs, config_file_path, sections, write_ok)
  /\ notification' = NotificationAfterSave(notification, config_file_path, write_ok)
  /\ UNCHANGED << current_screen, sidebar_index, config_flow_return_screen,
                  sections, selected_section_index, selected_item_index,
                  editing_value, config_file_path, running, edits >>
  /\ Draw(file_explorer, config_list_state)

EditingEsc(key) ==
  /\ running
  /\ UNCHANGED parser_vars
  /\ current_screen = "Editing"
  /\ ~is_ctrl_s(key)
  /\ key.code = "Esc"
  /\ current_screen' = config_flow_return_screen
  /\ notification' = ClearedNotification(key)
  /\ UNCHANGED << sidebar_index, config_flow_return_screen, sections,
                  selected_section_index, selected_item_index, editing_value,
                  config_file_path, running, fs, edits >>
  /\ Draw(file_explorer, config_list_state)

\* Right | Tab, Left | BackTab: change section, item cursor back to 0
EditingSection(key) ==
  /\ running
  /\ UNCHANGED parser_vars
  /\ current_screen = "Editing"
  /\ ~is_ctrl_s(key)
  /\ key.code \in {"Right", "Tab", "Left", "BackTab"}
  /\ IF sections # <<>>
     THEN /\ selected_section_index' =
               IF key.code \in {"Right", "Tab"}
               THEN NextSectionIndex(sections, selected_section_index)
               ELSE PreviousSectionIndex(sections, selected_section_index)
          /\ selected_item_index' = 0
          /\ notification' = ClearedNotification(key)
          /\ UNCHANGED << current_screen, sidebar_index,
                          config_flow_return_screen, sections, editing_value,
                          config_file_path, running, fs, edits >>
          /\ Draw(file_explorer, ListSelect(config_list_state, Some(0)))
     ELSE /\ notification' = ClearedNotification(key)
          /\ UNCHANGED << current_screen, sidebar_index,
                          config_flow_return_screen, sections,
                          selected_section_index, selected_item_index,
                          editing_value, config_file_path, running, fs, edits >>
          /\ Draw(file_explorer, config_list_state)

\* Down, Up: move the item cursor
EditingItem(key) ==
  /\ running
  /\ UNCHANGED parser_vars
  /\ current_screen = "Editing"
  /\ ~is_ctrl_s(key)
  /\ key.code \in {"Down", "Up"}
  /\ selected_item_index' =
       IF key.code = "Down"
       THEN DownItemIndex(sections, selected_section_index, selected_item_index)
       ELSE UpItemIndex(selected_item_index)
  /\ notification' = ClearedNotification(key)
  /\ UNCHANGED << current_screen, sidebar_index, config_flow_return_screen,
                  sections, selected_section_index, editing_value,
                  config_file_path, running, fs, edits >>
  /\ Draw(file_explorer,
          IF selected_item_index' # selected_item_index
          THEN ListSelect(config_list_state, Some(selected_item_index'))
          ELSE config_list_state)

\* Enter on a Boolean entry: flip it in place
EditingEnterBoolean(key) ==
  /\ running
  /\ UNCHANGED parser_vars
  /\ current_screen = "Editing"
  /\ ~is_ctrl_s(key)
  /\ key.code = "Enter"
  /\ HasEntry(sections, selected_section_index, selected_item_index)
  /\ IsBoolean(EntryAt(sections, selected_section_index, selected_item_index))
  /\ edits < MaxEdits
  /\ edits' = edits + 1
  /\ sections' =
       SetEntry(sections, selected_section_index, selected_item_index,
                FlipBoolean(EntryAt(sections, selected_section_index,
                                    selected_item_index)))
  /\ notification' = ClearedNotification(key)
  /\ UNCHANGED << current_screen, sidebar_index, config_flow_return_screen,
                  selected_section_index, selected_item_index, editing_value,
                  config_file_path, running, fs >>
  /\ Draw(file_explorer, config_list_state)

\* fault variant of EditingEnterValue: the popup opens on the buffer as it was
EditingEnterValueKeepBuffer(key) ==
  /\ running
  /\ UNCHANGED parser_vars
  /\ current_screen = "Editing"
  /\ ~is_ctrl_s(key)
  /\ key.code = "Enter"
  /\ HasEntry(sections, selected_section_index, selected_item_index)
  /\ ~IsBoolean(EntryAt(sections, selected_section_index, selected_item_index))
  /\ edits < MaxEdits
  /\ editing_value' = editing_value
  /\ current_screen' = "EditingValue"
  /\ notification' = ClearedNotification(key)
  /\ UNCHANGED << sidebar_index, config_flow_return_screen, sections,
                  selected_section_index, selected_item_index,
                  config_file_path, running, fs, edits >>
  /\ Draw(file_explorer, config_list_state)

\* Enter on any other entry: seed the buffer, open the value popup
EditingEnterValue(key) ==
  /\ running
  /\ UNCHANGED parser_vars
  /\ current_screen = "Editing"
  /\ ~is_ctrl_s(key)
  /\ key.code = "Enter"
  /\ HasEntry(sections, selected_section_index, selected_item_index)
  /\ ~IsBoolean(EntryAt(sections, selected_section_index, selected_item_index))
  /\ edits < MaxEdits
  /\ editing_value' =
       EntryAt(sections, selected_section_index, selected_item_index).value
  /\ current_screen' = "EditingValue"
  /\ notification' = ClearedNotification(key)
  /\ UNCHANGED << sidebar_index, config_flow_return_screen, sections,
                  selected_section_index, selected_item_index,
                  config_file_path, running, fs, edits >>
  /\ Draw(file_explorer, config_list_state)

\* Space: toggle enabled
EditingSpace(key) ==
  /\ running
  /\ UNCHANGED parser_vars
  /\ current_screen = "Editing"
  /\ ~is_ctrl_s(key)
  /\ IsChar(key, " ")
  /\ HasEntry(sections, selected_section_index, selected_item_index)
  /\ edits < MaxEdits
  /\ edits' = edits + 1
  /\ sections' =
       SetEntry(sections, selected_section_index, selected_item_index,
                ToggleEnabled(EntryAt(sections, selected_section_index,
                                      selected_item_index)))
  /\ notification' = ClearedNotification(key)
  /\ UNCHANGED << current_screen, sidebar_index, config_flow_return_screen,
                  selected_section_index, selected_item_index, editing_value,
                  config_file_path, running, fs >>
  /\ Draw(file_explorer, config_list_state)

\* --- key events on EditingValue ------------------------------------------

\* the sections after the buffer is committed to the selected entry
Committed(secs, si, ii, buffer) ==
  IF HasEntry(secs, si, ii)
  THEN SetEntry(secs, si, ii, CommitEdit(EntryAt(secs, si, ii), buffer))
  ELSE secs

\* fault variant of EditValueSave: the file is written before the commit
EditValueSaveBeforeCommit(key, write_ok) ==
  /\ running
  /\ UNCHANGED parser_vars
  /\ current_screen = "EditingValue"
  /\ is_ctrl_s(key)
  /\ edits < MaxEdits
  /\ edits' = edits + 1
  /\ sections' = Committed(sections, selected_section_index,
                           selected_item_index, editing_value)
  /\ fs' = FilesAfterSave(fs, config_file_path, sections, write_ok)
  /\ notification' = NotificationAfterSave(notification, config_file_path, write_ok)
  /\ current_screen' = "Editing"
  /\ UNCHANGED << sidebar_index, config_flow_return_screen,
                  selected_section_index, selected_item_index, editing_value,
                  config_file_path, running >>
  /\ Draw(file_explorer, config_list_state)

\* the save chord: commit, save_config, back to Editing
EditValueSave(key, write_ok) ==
  /\ running
  /\ UNCHANGED parser_vars
  /\ current_screen = "EditingValue"
  /\ is_ctrl_s(key)
  /\ edits < MaxEdits
  /\ edits' = edits + 1
  /\ sections' = Committed(sections, selected_section_index,
                           selected_item_index, editing_value)
  /\ fs' = FilesAfterSave(fs, config_file_path, sections', write_ok)
  /\ notification' = NotificationAfterSave(notification, config_file_path, write_ok)
  /\ current_screen' = "Editing"
  /\ UNCHANGED << sidebar_index, config_flow_return_screen,
                  selected_section_index, selected_item_index, editing_value,
                  config_file_path, running >>
  /\ Draw(file_explorer, config_list_state)

\* fault variant of EditValueEsc: leaving the popup commits the buffer
EditValueEscCommits(key) ==
  /\ running
  /\ UNCHANGED parser_vars
  /\ current_screen = "EditingValue"
  /\ ~is_ctrl_s(key)
  /\ key.code = "Esc"
  /\ sections' = Committed(sections, selected_section_index,
                           selected_item_index, editing_value)
  /\ current_screen' = "Editing"
  /\ notification' = ClearedNotification(key)
  /\ UNCHANGED << sidebar_index, config_flow_return_screen,
                  selected_section_index, selected_item_index, editing_value,
                  config_file_path, running, fs, edits >>
  /\ Draw(file_explorer, config_list_state)

\* Esc: leave the popup, the buffer is not committed
EditValueEsc(key) ==
  /\ running
  /\ UNCHANGED parser_vars
  /\ current_screen = "EditingValue"
  /\ ~is_ctrl_s(key)
  /\ key.code = "Esc"
  /\ current_screen' = "Editing"
  /\ notification' = ClearedNotification(key)
  /\ UNCHANGED << sidebar_index, config_flow_return_screen, sections,
                  selected_section_index, selected_item_index, editing_value,
                  config_file_path, running, fs, edits >>
  /\ Draw(file_explorer, config_list_state)

EditValueEnter(key) ==
  /\ running
  /\ UNCHANGED parser_vars
  /\ current_screen = "EditingValue"
  /\ ~is_ctrl_s(key)
  /\ key.code = "Enter"
  /\ edits < MaxEdits
  /\ edits' = edits + 1
  /\ sections' = Committed(sections, selected_section_index,
                           selected_item_index, editing_value)
  /\ current_screen' = "Editing"
  /\ notification' = ClearedNotification(key)
  /\ UNCHANGED << sidebar_index, config_flow_return_screen,
                  selected_section_index, selected_item_index, editing_value,
                  config_file_path, running, fs >>
  /\ Draw(file_explorer, config_list_state)

\* Backspace pops, a character key pushes
EditValueType(key) ==
  /\ running
  /\ UNCHANGED parser_vars
  /\ current_screen = "EditingValue"
  /\ ~is_ctrl_s(key)
  /\ key.code \in {"Backspace", "Char"}
  /\ key.code = "Char" => Len(editing_value) < MaxBufLen
  /\ editing_value' =
       IF key.code = "Backspace" THEN PopChar(editing_value)
       ELSE Append(editing_value, key.ch)
  /\ notification' = ClearedNotification(key)
  /\ UNCHANGED << current_screen, sidebar_index, config_flow_return_screen,
                  sections, selected_section_index, selected_item_index,
                  config_file_path, running, fs, edits >>
  /\ Draw(file_explorer, config_list_state)

\* --- keys no arm of the screen handles -----------------------------------

HandledCodes(screen) ==
  CASE screen = "Home" -> {"Up", "Down"}
    [] screen = "BitcoinConfig" -> {"Up", "Down", "Enter"}
    [] screen = "FileExplorer" -> {"Esc", "Up", "Down", "Enter"}
    [] screen = "Editing" ->
         {"Esc", "Right", "Tab", "Left", "BackTab", "Down", "Up", "Enter"}
    [] OTHER -> {"Esc", "Enter", "Backspace", "Char"}

\* the keys that reach a `_ => {}` arm, or an arm with nothing to act on
IgnoredKeys ==
  { key \in Keys :
      \/ /\ key.code \notin HandledCodes(current_screen)
         /\ ~(current_screen \in {"Editing", "EditingValue"} /\ is_ctrl_s(key))
         /\ ~(current_screen = "Editing" /\ IsChar(key, " "))
      \/ /\ current_screen = "FileExplorer" /\ key.code = "Enter"
         /\ ExplorerSelected = None
      \/ /\ current_screen = "Editing" /\ ~is_ctrl_s(key)
         /\ key.code = "Enter" \/ IsChar(key, " ")
         /\ ~HasEntry(sections, selected_section_index, selected_item_index) }

IgnoredKey(key) ==
  /\ running
  /\ UNCHANGED parser_vars
  /\ current_screen # "Home"
  /\ key \in IgnoredKeys
  /\ notification' = ClearedNotification(key)
  /\ UNCHANGED << current_screen, sidebar_index, config_flow_return_screen,
                  sections, selected_section_index, selected_item_index,
                  editing_value, config_file_path, running, fs, edits >>
  /\ Draw(file_explorer, config_list_state)

\* --- pointer events: App::handle_mouse_event -----------------------------

LeftPress(mouse) == mouse.kind = "DownLeft"

\* the inner rows of a bordered list: below the top border, above the bottom
InsideRows(rect, mouse) ==
  /\ Contains(rect, mouse.column, mouse.row)
  /\ mouse.row > rect.y
  /\ mouse.row < rect.y + rect.height - 1

\* row_index + offset
RowIndex(rect, mouse, offset) ==
  (IF mouse.row >= rect.y + 1 THEN mouse.row - (rect.y + 1) ELSE 0) + offset

\* fault variant of MouseRoleScreen: any button opens the explorer
MouseRoleScreenAnyButton(mouse) ==
  /\ running
  /\ UNCHANGED parser_vars
  /\ current_screen \in {"Home", "BitcoinConfig"}
  /\ UNCHANGED << sidebar_index, sections, selected_section_index,
                  selected_item_index, editing_value, config_file_path,
                  notification, running, fs, edits >>
  /\ LET hit == /\ interactive_rects.select_config_button # None
                /\ Contains(interactive_rects.select_config_button[1],
                            mouse.column, mouse.row)
     IN  /\ config_flow_return_screen' =
              IF hit THEN current_screen ELSE config_flow_return_screen
         /\ current_screen' = IF hit THEN "FileExplorer" ELSE current_screen
         /\ Draw(IF hit THEN refresh_files(file_explorer) ELSE file_explorer,
                 config_list_state)

\* Home and BitcoinConfig: a press on the button opens the explorer
MouseRoleScreen(mouse) ==
  /\ running
  /\ UNCHANGED parser_vars
  /\ current_screen \in {"Home", "BitcoinConfig"}
  /\ UNCHANGED << sidebar_index, sections, selected_section_index,
                  selected_item_index, editing_value, config_file_path,
                  notification, running, fs, edits >>
  /\ LET hit == /\ LeftPress(mouse)
                /\ interactive_rects.select_config_button # None
                /\ Contains(interactive_rects.select_config_button[1],
                            mouse.column, mouse.row)
     IN  /\ config_flow_return_screen' =
              IF hit THEN current_screen ELSE config_flow_return_screen
         /\ current_screen' = IF hit THEN "FileExplorer" ELSE current_screen
         /\ Draw(IF hit THEN refresh_files(file_explorer) ELSE file_explorer,
                 config_list_state)

\* fault variant of MouseFileExplorer: the scroll offset is left out
MouseFileExplorerNoOffset(mouse) ==
  /\ running
  /\ UNCHANGED parser_vars
  /\ current_screen = "FileExplorer"
  /\ UNCHANGED << current_screen, sidebar_index, config_flow_return_screen,
                  sections, selected_section_index, selected_item_index,
                  editing_value, config_file_path, notification, running,
                  fs, edits >>
  /\ LET rect == interactive_rects.file_list
         hit == /\ LeftPress(mouse)
                /\ rect # None
                /\ InsideRows(rect[1], mouse)
         index == RowIndex(rect[1], mouse, 0)
     IN  Draw(IF hit /\ index < Len(file_explorer.files)
              THEN [file_explorer EXCEPT
                      !.list_state = ListSelect(@, Some(index))]
              ELSE file_explorer,
              config_list_state)

\* FileExplorer: a press on a row of the list selects it
MouseFileExplorer(mouse) ==
  /\ running
  /\ UNCHANGED parser_vars
  /\ current_screen = "FileExplorer"
  /\ UNCHANGED << current_screen, sidebar_index, config_flow_return_screen,
                  sections, selected_section_index, selected_item_index,
                  editing_value, config_file_path, notification, running,
                  fs, edits >>
  /\ LET rect == interactive_rects.file_list
         hit == /\ LeftPress(mouse)
                /\ rect # None
                /\ InsideRows(rect[1], mouse)
         index == RowIndex(rect[1], mouse, file_explorer.list_state.offset)
     IN  Draw(IF hit /\ index < Len(file_explorer.files)
              THEN [file_explorer EXCEPT
                      !.list_state = ListSelect(@, Some(index))]
              ELSE file_explorer,
              config_list_state)

\* fault variant of TabAt: no column is left between two tabs
RECURSIVE TabAtNoGap(_, _, _, _)
TabAtNoGap(secs, i, x, column) ==
  IF i >= Len(secs) THEN None
  ELSE LET width == Len(secs[i + 1].name) + 3
       IN  IF column >= x /\ column < x + width THEN Some(i)
           ELSE TabAtNoGap(secs, i + 1, x + width, column)

\* the tab under the column: tabs are laid out from x, each len(name) + 3
\* wide with one column between them; None when the column is on no tab
RECURSIVE TabAt(_, _, _, _)
TabAt(secs, i, x, column) ==
  IF i >= Len(secs) THEN None
  ELSE LET width == Len(secs[i + 1].name) + 3
       IN  IF column >= x /\ column < x + width THEN Some(i)
           ELSE TabAt(secs, i + 1, x + width + 1, column)

\* Editing: a press on a tab selects the section, a press on a row of the
\* list selects the item
MouseEditing(mouse) ==
  /\ running
  /\ UNCHANGED parser_vars
  /\ current_screen = "Editing"
  /\ UNCHANGED << current_screen, sidebar_index, config_flow_return_screen,
                  sections, editing_value, config_file_path, notification,
                  running, fs, edits >>
  /\ LET tabs == interactive_rects.tabs
         tab == IF LeftPress(mouse) /\ tabs # None /\ InsideRows(tabs[1], mouse)
                THEN TabAt(sections, 0, tabs[1].x + 1, mouse.column)
                ELSE None
         si == IF tab # None THEN tab[1] ELSE selected_section_index
         ii == IF tab # None THEN 0 ELSE selected_item_index
         cls == IF tab # None THEN ListSelect(config_list_state, Some(0))
                ELSE config_list_state
         list == interactive_rects.config_list
         inlist == /\ LeftPress(mouse)
                   /\ list # None
                   /\ InsideRows(list[1], mouse)
         index == RowIndex(list[1], mouse, cls.offset)
         row == IF inlist /\ si < Len(sections)
                   /\ index < Len(sections[si + 1].items)
                THEN Some(index) ELSE None
     IN  /\ selected_section_index' = si
         /\ selected_item_index' = IF row # None THEN row[1] ELSE ii
         /\ Draw(file_explorer,
                 IF row # None THEN ListSelect(cls, row) ELSE cls)

\* fault variant of MouseEditingValue: the tabs behind the popup take presses
MouseEditingValueOnTabs(mouse) ==
  /\ running
  /\ UNCHANGED parser_vars
  /\ current_screen = "EditingValue"
  /\ UNCHANGED << current_screen, sidebar_index, config_flow_return_screen,
                  sections, editing_value, config_file_path, notification,
                  running, fs, edits >>
  /\ LET tabs == interactive_rects.tabs
         tab == IF LeftPress(mouse) /\ tabs # None /\ InsideRows(tabs[1], mouse)
                THEN TabAt(sections, 0, tabs[1].x + 1, mouse.column)
                ELSE None
     IN  /\ selected_section_index' =
              IF tab # None THEN tab[1] ELSE selected_section_index
         /\ selected_item_index' = IF tab # None THEN 0 ELSE selected_item_index
         /\ Draw(file_explorer,
                 IF tab # None THEN ListSelect(config_list_state, Some(0))
                 ELSE config_list_state)

\* EditingValue: no arm for pointer events
MouseEditingValue(mouse) ==
  /\ running
  /\ UNCHANGED parser_vars
  /\ current_screen = "EditingValue"
  /\ UNCHANGED << current_screen, sidebar_index, config_flow_return_screen,
                  sections, selected_section_index, selected_item_index,
                  editing_value, config_file_path, notification, running,
                  fs, edits >>
  /\ Draw(file_explorer, config_list_state)

\* --- the session ----------------------------------------------------------

Next ==
  \/ \E key \in Keys : MenuKey(key)
  \/ \E key \in Keys : HomeKey(key)
  \/ \E key \in Keys : BitcoinConfigEnter(key)
  \/ \E key \in Keys : ExplorerEsc(key)
  \/ \E key \in Keys : ExplorerMove(key)
  \/ \E key \in Keys : ExplorerEnterDir(key)
  \/ \E key \in Keys : ExplorerEnterFile(key)
  \/ \E key \in Keys, write_ok \in BOOLEAN : EditingSave(key, write_ok)
  \/ \E key \in Keys : EditingEsc(key)
  \/ \E key \in Keys : EditingSection(key)
  \/ \E key \in Keys : EditingItem(key)
  \/ \E key \in Keys : EditingEnterBoolean(key)
  \/ \E key \in Keys : EditingEnterValue(key)
  \/ \E key \in Keys : EditingSpace(key)
  \/ \E key \in Keys, write_ok \in BOOLEAN : EditValueSave(key, write_ok)
  \/ \E key \in Keys : EditValueEsc(key)
  \/ \E key \in Keys : EditValueEnter(key)
  \/ \E key \in Keys : EditValueType(key)
  \/ \E key \in Keys : IgnoredKey(key)
  \/ \E mouse \in MouseEvents : MouseRoleScreen(mouse)
  \/ \E mouse \in MouseEvents : MouseFileExplorer(mouse)
  \/ \E mouse \in MouseEvents : MouseEditing(mouse)
  \/ \E mouse \in MouseEvents : MouseEditingValue(mouse)

Spec == Init /\ [][Next]_vars

\* --- sessions that open a file, over the files of ParseFiles --------------

\* App::new with any of the files at the configuration path
InitParse ==
  /\ tree = SessionTree
  /\ app = None
  /\ current_screen = "Home"
  /\ sidebar_index = 0
  /\ config_flow_return_screen = "Home"
  /\ sections = <<>>
  /\ selected_section_index = 0
  /\ selected_item_index = 0
  /\ editing_value = <<>>
  /\ config_list_state = ListStateDefault
  /\ config_file_path = None
  /\ notification = None
  /\ interactive_rects = InteractiveRectsDefault
  /\ file_explorer = FileExplorerStateNew
  /\ running = TRUE
  /\ \E file \in ParseFiles : fs = [p \in FilePaths |-> file]
  /\ edits = 0
  /\ p2pool_file = NoFile
  /\ p2pool_parsed = None

\* the key events up to the load of the chosen file
NextParse ==
  \/ \E key \in Keys : MenuKey(key)
  \/ \E key \in Keys : HomeKey(key)
  \/ \E key \in Keys : BitcoinConfigEnter(key)
  \/ \E key \in Keys : ExplorerEsc(key)
  \/ \E key \in Keys : ExplorerMove(key)
  \/ \E key \in Keys : ExplorerEnterDir(key)
  \/ \E key \in Keys : ExplorerEnterFile(key)

SpecParse == InitParse /\ [][NextParse]_vars

\* --- parse_p2pool_config over the texts of P2PoolFiles ---------------------

\* rpcuser=q / " bitcoind.rpcport = 1 " / listen_port=0 / wallet_address=a /
\* foo= / payout=1 / "# c=1" / "" / bar
TextP2Pool ==
  << <<"r", "p", "c", "u", "s", "e", "r", "=", "q">>,
     <<" ", "b", "i", "t", "c", "o", "i", "n", "d", ".", "r", "p", "c", "p", "o", "r", "t", " ", "=", " ", "1", " ">>,
     <<"l", "i", "s", "t", "e", "n", "_", "p", "o", "r", "t", "=", "0">>,
     <<"w", "a", "l", "l", "e", "t", "_", "a", "d", "d", "r", "e", "s", "s", "=", "a">>,
     <<"f", "o", "o", "=">>,
     <<"p", "a", "y", "o", "u", "t", "=", "1">>,
     <<"#", " ", "c", "=", "1">>,
     <<>>,
     <<"b", "a", "r">> >>

\* the lines of text whose positions are in keep, in order
RECURSIVE PickLines(_, _, _)
PickLines(text, keep, i) ==
  IF i > Len(text) THEN <<>>
  ELSE (IF i \in keep THEN << text[i] >> ELSE <<>>)
       \o PickLines(text, keep, i + 1)

Reversed(text) == [ i \in 1..Len(text) |-> text[Len(text) + 1 - i] ]

\* the files parse_p2pool_config is explored on: every selection of lines of
\* the text, in either order, the path whose target is missing, and a file
\* that cannot be read
P2PoolFiles ==
  { FileOf(PickLines(text, keep, 1)) :
      text \in { TextP2Pool, Reversed(TextP2Pool) },
      keep \in SUBSET (1..Len(TextP2Pool)) }
  \cup { NoFile, Unreadable }

InitP2Pool ==
  /\ tree = SessionTree
  /\ app = None
  /\ current_screen = "Home"
  /\ sidebar_index = 0
  /\ config_flow_return_screen = "Home"
  /\ sections = <<>>
  /\ selected_section_index = 0
  /\ selected_item_index = 0
  /\ editing_value = <<>>
  /\ config_list_state = ListStateDefault
  /\ config_file_path = None
  /\ notification = None
  /\ interactive_rects = InteractiveRectsDefault
  /\ file_explorer = FileExplorerStateNew
  /\ running = TRUE
  /\ fs = [p \in FilePaths |-> NoFile]
  /\ edits = 0
  /\ p2pool_file \in P2PoolFiles
  /\ p2pool_parsed = None

\* the call parse_p2pool_config(&path)
ParseP2Pool ==
  /\ p2pool_parsed = None
  /\ p2pool_parsed' = Some(parse_p2pool_config(p2pool_file))
  /\ UNCHANGED << current_screen, sidebar_index, config_flow_return_screen,
                  sections, selected_section_index, selected_item_index,
                  editing_value, config_list_state, config_file_path,
                  notification, interactive_rects, file_explorer, running,
                  fs, edits, p2pool_file, tree, app >>

NextP2Pool == ParseP2Pool

SpecP2Pool == InitP2Pool /\ [][NextP2Pool]_vars

\* ------------------------------------------------------------------------
\* FileExplorer (components/file_explorer.rs)
\* ------------------------------------------------------------------------

\* PathBuf::cmp: component by component, a proper prefix first
RECURSIVE PathLess(_, _)
PathLess(a, b) ==
  IF b = <<>> THEN FALSE
  ELSE IF a = <<>> THEN TRUE
  ELSE IF Head(a) = Head(b) THEN PathLess(Tail(a), Tail(b))
  ELSE StrLess(Head(a), Head(b))

\* Vec<PathBuf>::sort
RECURSIVE SortPaths(_)
SortPaths(paths) ==
  IF paths = {} THEN <<>>
  ELSE LET m == CHOOSE x \in paths : \A y \in paths \ {x} : PathLess(x, y)
       IN  <<m>> \o SortPaths(paths \ {m})

\* fault variant of load_directory: the entries are sorted in one group
load_directoryUnsplit(explorer) ==
  LET dir == explorer.current_dir
  IN  [explorer EXCEPT
         !.files = (IF HasParent(dir) THEN << dir \o <<DotDot>> >> ELSE <<>>)
                   \o SortPaths(ReadDir(dir)),
         !.selected_index = 0]

\* load_directory: "..", then the directories, then the other entries
load_directory(explorer) ==
  LET dir == explorer.current_dir
  IN  [explorer EXCEPT
         !.files = (IF HasParent(dir) THEN << dir \o <<DotDot>> >> ELSE <<>>)
                   \o SortPaths({ p \in ReadDir(dir) : is_dir(p) })
                   \o SortPaths({ p \in ReadDir(dir) : ~is_dir(p) }),
         !.selected_index = 0]

\* FileExplorer::new
FileExplorerNew ==
  load_directory([current_dir |-> WorkDir, files |-> <<>>, selected_index |-> 0])

\* fault variant of next: the selection stops at the last entry
nextClamped(explorer) ==
  IF explorer.files # <<>> /\ explorer.selected_index + 1 < Len(explorer.files)
  THEN [explorer EXCEPT !.selected_index = @ + 1]
  ELSE explorer

next(explorer) ==
  IF explorer.files # <<>>
  THEN [explorer EXCEPT !.selected_index = (@ + 1) % Len(explorer.files)]
  ELSE explorer

previous(explorer) ==
  IF explorer.files # <<>>
  THEN [explorer EXCEPT
          !.selected_index = IF @ = 0 THEN Len(explorer.files) - 1 ELSE @ - 1]
  ELSE explorer

\* fault variant of select: the parent marker is entered like a directory
selectNoParent(explorer) ==
  IF explorer.files = <<>> THEN [explorer |-> explorer, path |-> None]
  ELSE LET selected == explorer.files[explorer.selected_index + 1]
       IN  IF is_dir(selected)
           THEN [explorer |->
                   load_directory([explorer EXCEPT !.current_dir = selected]),
                 path |-> None]
           ELSE [explorer |-> explorer, path |-> Some(selected)]

\* select: the explorer it leaves and the Option<PathBuf> it returns
select(explorer) ==
  IF explorer.files = <<>> THEN [explorer |-> explorer, path |-> None]
  ELSE LET selected == explorer.files[explorer.selected_index + 1]
       IN  IF EndsWithDotDot(selected)
           THEN [explorer |->
                   IF HasParent(explorer.current_dir)
                   THEN load_directory(
                          [explorer EXCEPT
                             !.current_dir = Parent(explorer.current_dir)])
                   ELSE explorer,
                 path |-> None]
           ELSE IF is_dir(selected)
           THEN [explorer |->
                   load_directory([explorer EXCEPT !.current_dir = selected]),
                 path |-> None]
           ELSE [explorer |-> explorer, path |-> Some(selected)]

\* ------------------------------------------------------------------------
\* ConfigEditor (components/config_editor.rs)
\* ------------------------------------------------------------------------

ConfigEditorNew ==
  [sections |-> <<>>, selected_tab |-> 0, field_state |-> ListStateDefault]

reset_field_selection(editor) ==
  [editor EXCEPT
     !.field_state =
        ListSelect(@, IF editor.sections[editor.selected_tab + 1].fields # <<>>
                      THEN Some(0) ELSE None)]

load_data(editor, secs) ==
  [sections |-> secs,
   selected_tab |-> 0,
   field_state |->
     IF secs # <<>> /\ Head(secs).fields # <<>>
     THEN ListSelect(ListSelect(editor.field_state, None), Some(0))
     ELSE ListSelect(editor.field_state, None)]

next_tab(editor) ==
  IF editor.sections = <<>> THEN editor
  ELSE reset_field_selection(
         [editor EXCEPT !.selected_tab = (@ + 1) % Len(editor.sections)])

previous_tab(editor) ==
  IF editor.sections = <<>> THEN editor
  ELSE reset_field_selection(
         [editor EXCEPT
            !.selected_tab = IF @ = 0 THEN Len(editor.sections) - 1 ELSE @ - 1])

\* fault variant of next_field: the cursor is set without looking at the count
next_fieldUnchecked(editor) ==
  [editor EXCEPT
     !.field_state =
        ListSelect(@, IF @.selected = None THEN Some(0)
                      ELSE Some(@.selected[1] + 1))]

next_field(editor) ==
  IF editor.sections = <<>> THEN editor
  ELSE LET count == Len(editor.sections[editor.selected_tab + 1].fields)
       IN  IF count = 0 THEN editor
           ELSE [editor EXCEPT
                   !.field_state =
                      ListSelect(@, IF @.selected = None THEN Some(0)
                                    ELSE Some((@.selected[1] + 1) % count))]

previous_field(editor) ==
  IF editor.sections = <<>> THEN editor
  ELSE LET count == Len(editor.sections[editor.selected_tab + 1].fields)
       IN  IF count = 0 THEN editor
           ELSE [editor EXCEPT
                   !.field_state =
                      ListSelect(@, IF @.selected = None THEN Some(0)
                                    ELSE IF @.selected[1] = 0 THEN Some(count - 1)
                                    ELSE Some(@.selected[1] - 1))]

\* ------------------------------------------------------------------------
\* run_app (main.rs): the key loop over the App with a FileExplorer, the
\* explorer trigger, the two configuration paths and the p2pool editor
\* ------------------------------------------------------------------------

\* App::new of that App; in_loop tells that run_app has not returned
RunAppNew ==
  [current_screen |-> "Home", sidebar_index |-> 0,
   explorer |-> FileExplorerNew, explorer_trigger |-> None,
   p2pool_conf_path |-> None, bitcoin_conf_path |-> None,
   p2pool_editor |-> ConfigEditorNew, in_loop |-> TRUE]

\* toggle_menu of that App: the third sidebar row is the p2pool screen
toggle_menu_run_app(index, screen) ==
  CASE index = 0 -> "Home"
    [] index = 1 -> "BitcoinConfig"
    [] index = 2 -> "P2PoolConfig"
    [] OTHER -> screen

\* Path::is_file: a link whose target is missing is not a file
is_file(path) == path \in FilePaths /\ fs[path].exists

\* the variables of the editing session, which run_app does not touch
session_vars ==
  << current_screen, sidebar_index, config_flow_return_screen, sections,
     selected_section_index, selected_item_index, editing_value,
     config_list_state, config_file_path, notification, interactive_rects,
     file_explorer, running, fs, edits, p2pool_file, p2pool_parsed, tree >>

\* 'q' on any screen: run_app returns
RunAppQuit(key) ==
  /\ app # None /\ app.in_loop
  /\ IsChar(key, "q")
  /\ app' = [app EXCEPT !.in_loop = FALSE]
  /\ UNCHANGED session_vars

\* FileExplorer: Up and Down move the selection
RunAppExplorerMove(key) ==
  /\ app # None /\ app.in_loop
  /\ app.current_screen = "FileExplorer"
  /\ key.code \in {"Up", "Down"}
  /\ app' = [app EXCEPT
               !.explorer = IF key.code = "Up" THEN previous(@) ELSE next(@)]
  /\ UNCHANGED session_vars

\* FileExplorer: Esc goes back to the screen that opened the explorer
RunAppExplorerEsc(key) ==
  /\ app # None /\ app.in_loop
  /\ app.current_screen = "FileExplorer"
  /\ key.code = "Esc"
  /\ app' = [app EXCEPT
               !.current_screen =
                  IF app.explorer_trigger # None THEN app.explorer_trigger[1]
                  ELSE toggle_menu_run_app(app.sidebar_index, @)]
  /\ UNCHANGED session_vars

\* fault variant of RunAppExplorerEnter: the chosen file is recorded as the
\* bitcoin path whichever screen opened the explorer
RunAppExplorerEnterOnePath(key) ==
  /\ app # None /\ app.in_loop
  /\ app.current_screen = "FileExplorer"
  /\ key.code = "Enter"
  /\ LET r == select(app.explorer)
     IN  app' =
           IF r.path = None \/ ~is_file(r.path[1])
           THEN [app EXCEPT !.explorer = r.explorer]
           ELSE IF app.explorer_trigger # None
           THEN [app EXCEPT !.explorer = r.explorer,
                            !.bitcoin_conf_path = r.path,
                            !.current_screen = app.explorer_trigger[1],
                            !.explorer_trigger = None]
           ELSE [app EXCEPT !.explorer = r.explorer, !.explorer_trigger = None]
  /\ UNCHANGED session_vars

\* FileExplorer: Enter activates the selected entry; a regular file is
\* recorded for the screen that opened the explorer
RunAppExplorerEnter(key) ==
  /\ app # None /\ app.in_loop
  /\ app.current_screen = "FileExplorer"
  /\ key.code = "Enter"
  /\ LET r == select(app.explorer)
         parsed == parse_p2pool_config(fs[r.path[1]])
     IN  app' =
           IF r.path = None \/ ~is_file(r.path[1])
           THEN [app EXCEPT !.explorer = r.explorer]
           ELSE IF app.explorer_trigger = Some("P2PoolConfig")
           THEN [app EXCEPT
                   !.explorer = r.explorer,
                   !.p2pool_conf_path = r.path,
                   !.p2pool_editor =
                      IF parsed.ok THEN load_data(@, parsed.sections) ELSE @,
                   !.current_screen = "P2PoolConfig",
                   !.explorer_trigger = None]
           ELSE IF app.explorer_trigger = Some("BitcoinConfig")
           THEN [app EXCEPT !.explorer = r.explorer,
                            !.bitcoin_conf_path = r.path,
                            !.current_screen = "BitcoinConfig",
                            !.explorer_trigger = None]
           ELSE [app EXCEPT !.explorer = r.explorer, !.explorer_trigger = None]
  /\ UNCHANGED session_vars

\* the other screens: Enter on a configuration screen opens the explorer
RunAppEnter(key) ==
  /\ app # None /\ app.in_loop
  /\ app.current_screen \in {"BitcoinConfig", "P2PoolConfig"}
  /\ key.code = "Enter"
  /\ app' = [app EXCEPT !.explorer_trigger = Some(app.current_screen),
                        !.current_screen = "FileExplorer"]
  /\ UNCHANGED session_vars

\* the p2pool screen with a file chosen: the arrows drive the editor
RunAppEditorKey(key) ==
  /\ app # None /\ app.in_loop
  /\ app.current_screen = "P2PoolConfig" /\ app.p2pool_conf_path # None
  /\ key.code \in {"Right", "Left", "Up", "Down"}
  /\ app' = [app EXCEPT
               !.p2pool_editor =
                  CASE key.code = "Right" -> next_tab(@)
                    [] key.code = "Left" -> previous_tab(@)
                    [] key.code = "Up" -> previous_field(@)
                    [] OTHER -> next_field(@)]
  /\ UNCHANGED session_vars

\* Up and Down elsewhere move the sidebar
RunAppMenu(key) ==
  /\ app # None /\ app.in_loop
  /\ app.current_screen # "FileExplorer"
  /\ ~(app.current_screen = "P2PoolConfig" /\ app.p2pool_conf_path # None)
  /\ key.code \in {"Up", "Down"}
  /\ LET index == IF key.code = "Up"
                  THEN (IF app.sidebar_index > 0 THEN app.sidebar_index - 1
                        ELSE app.sidebar_index)
                  ELSE (IF app.sidebar_index < 2 THEN app.sidebar_index + 1
                        ELSE app.sidebar_index)
     IN  app' = [app EXCEPT
                   !.sidebar_index = index,
                   !.current_screen =
                      IF index # app.sidebar_index
                      THEN toggle_menu_run_app(index, @) ELSE @]
  /\ UNCHANGED session_vars

\* --- both explorers over the directory trees of ExplorerTrees --------------

\* the session's tree; a tree with /c, and in /d the directories b and k
\* beside a and x; the tree of an empty root
ExplorerTrees ==
  { SessionTree,
    [dirs |-> { <<>>, << <<"d">> >>, << <<"d">>, <<"b">> >>,
                << <<"d">>, <<"k">> >> },
     files |-> { << <<"c">> >>, << <<"d">>, <<"a">> >>, << <<"d">>, <<"x">> >> }],
    [dirs |-> { <<>> }, files |-> {}] }

\* what the entries hold: c the text rpcuser=q / port=1 / listen=0, a is a
\* link whose target is missing, x cannot be read
ExplorerContent(path) ==
  CASE path[Len(path)] = <<"c">> ->
         FileOf(<< S_rpcuser \o <<"=", "q">>, <<"p", "o", "r", "t", "=", "1">>,
                   <<"l", "i", "s", "t", "e", "n", "=", "0">> >>)
    [] path[Len(path)] = <<"a">> -> NoFile
    [] OTHER -> Unreadable

\* one of the two programs is started on one of the trees: the editing
\* session of App (running), or run_app
InitExplorer ==
  /\ tree \in ExplorerTrees
  /\ running \in BOOLEAN
  /\ app = IF running THEN None ELSE RunAppNew
  /\ current_screen = "Home"
  /\ sidebar_index = 0
  /\ config_flow_return_screen = "Home"
  /\ sections = <<>>
  /\ selected_section_index = 0
  /\ selected_item_index = 0
  /\ editing_value = <<>>
  /\ config_list_state = ListStateDefault
  /\ config_file_path = None
  /\ notification = None
  /\ interactive_rects = InteractiveRectsDefault
  /\ file_explorer = FileExplorerStateNew
  /\ fs = [p \in FilePaths |-> ExplorerContent(p)]
  /\ edits = 0
  /\ p2pool_file = NoFile
  /\ p2pool_parsed = None

\* the events that reach the explorers
NextExplorer ==
  \/ \E key \in Keys : MenuKey(key)
  \/ \E key \in Keys : BitcoinConfigEnter(key)
  \/ \E key \in Keys : ExplorerEsc(key)
  \/ \E key \in Keys : ExplorerMove(key)
  \/ \E key \in Keys : ExplorerEnterDir(key)
  \/ \E mouse \in MouseEvents : MouseFileExplorer(mouse)
  \/ \E key \in Keys : RunAppQuit(key)
  \/ \E key \in Keys : RunAppExplorerMove(key)
  \/ \E key \in Keys : RunAppExplorerEsc(key)
  \/ \E key \in Keys : RunAppExplorerEnter(key)
  \/ \E key \in Keys : RunAppEnter(key)
  \/ \E key \in Keys : RunAppEditorKey(key)
  \/ \E key \in Keys : RunAppMenu(key)

SpecExplorer == InitExplorer /\ [][NextExplorer]_vars

\* ------------------------------------------------------------------------
\* Properties
\* ------------------------------------------------------------------------

\* the entries of all sections, in section order
RECURSIVE AllEntries(_)
AllEntries(secs) ==
  IF secs = <<>> THEN <<>> ELSE Head(secs).items \o AllEntries(Tail(secs))

\* the (key, value) pairs of the enabled entries
EnabledPairs(entries) ==
  { << entries[i].key, entries[i].value >> :
      i \in { j \in 1..Len(entries) : entries[j].enabled } }

\* the positions of the entries with the key
EntriesOf(entries, key) == { i \in 1..Len(entries) : entries[i].key = key }

\* a line of the file that assigns a key, read directly off the text
IsPairLine(line) ==
  LET t == TrimStart(line)
  IN  t # <<>> /\ Head(t) \notin {"#", ";", "["} /\ IndexOf(t, "=") > 0

RawKey(line) == Trim(SubSeq(line, 1, IndexOf(line, "=") - 1))

RawValue(line) == Trim(SubSeq(line, IndexOf(line, "=") + 1, Len(line)))

PairLines(file) ==
  { file.lines[i] : i \in { j \in 1..Len(file.lines) : IsPairLine(file.lines[j]) } }

\* the trimmed values the file gives to the key
FileValues(file, key) ==
  { RawValue(line) : line \in { l \in PairLines(file) : RawKey(l) = key } }

\* the file names the key, bare or behind a network prefix such as "test."
Mentions(file, key) ==
  \E line \in PairLines(file) : LastSegment(RawKey(line)) = key

\* the file the session was loaded from
LoadedFile == fs[config_file_path[1]]

\* --- C1 ------------------------------------------------------------------

\* C1 (round trip): right after a successful save, re-parsing the written
\* file yields exactly the (key, value) pairs of the enabled entries of the
\* session, and no entry that is disabled in the session comes back enabled.
C1_RoundTrip ==
  (current_screen = "Editing" /\ notification = Some(SavedNote)) =>
    \A ord \in ParseOrders(LoadedFile) :
      LET before == AllEntries(sections)
          after == parse_config(LoadedFile, ord)
      IN  /\ EnabledPairs(after) = EnabledPairs(before)
          /\ \A i \in 1..Len(before) :
               ~before[i].enabled =>
                 \A j \in EntriesOf(after, before[i].key) : ~after[j].enabled

\* --- C2 ------------------------------------------------------------------

C4_UnknownKeysOfFile ==
  current_screen = "Editing" =>
    LET entries == AllEntries(sections)
    IN  \A line \in PairLines(LoadedFile) :
          (RawKey(line) \notin SchemaKeys /\ IndexOf(RawKey(line), ".") = 0) =>
            \E i \in EntriesOf(entries, RawKey(line)) :
              /\ entries[i].schema = None
              /\ entries[i].enabled
              /\ entries[i].value \in FileValues(LoadedFile, RawKey(line))

\* --- C5 ------------------------------------------------------------------

\* the enabled entries of a section, in order
EnabledItems(sec) == SelectSeq(sec.items, LAMBDA e : e.enabled)

\* the number of lines a section contributes to the saved file
BlockLen(sec) ==
  IF EnabledItems(sec) = <<>> THEN 0 ELSE Len(EnabledItems(sec)) + 2

\* the line at which the block of section k starts
RECURSIVE BlockStart(_, _)
BlockStart(secs, k) ==
  IF k = 1 THEN 1 ELSE BlockStart(secs, k - 1) + BlockLen(secs[k - 1])

\* a comment line that ends in the section name
IsHeaderOf(line, name) ==
  /\ Len(line) > Len(name)
  /\ Head(line) = "#"
  /\ SubSeq(line, Len(line) - Len(name) + 1, Len(line)) = name

\* C5 (serialized form): right after a successful save the file consists,
\* for each section with an enabled entry and in section order, of a header
\* comment naming the section, one key=value line per enabled entry, and an
\* empty line; disabled entries and all-disabled sections contribute nothing.
C5_SavedForm ==
  (current_screen = "Editing" /\ notification = Some(SavedNote)) =>
    LET lines == LoadedFile.lines
    IN  /\ Len(lines) = BlockStart(sections, Len(sections) + 1) - 1
        /\ \A k \in 1..Len(sections) :
             LET on == EnabledItems(sections[k])
                 at == BlockStart(sections, k)
             IN  on # <<>> =>
                   /\ IsHeaderOf(lines[at], sections[k].name)
                   /\ \A m \in 1..Len(on) :
                        lines[at + m] = on[m].key \o <<"=">> \o on[m].value
                   /\ lines[at + Len(on) + 1] = <<>>

\* a save of sections of all three kinds: all disabled, all enabled, mixed
C5_Witness ==
  /\ current_screen = "Editing"
  /\ notification = Some(SavedNote)
  /\ \E k \in 1..Len(sections) : EnabledItems(sections[k]) = <<>>
  /\ \E k \in 1..Len(sections) :
       /\ EnabledItems(sections[k]) # <<>>
       /\ EnabledItems(sections[k]) # sections[k].items

\* --- C6 ------------------------------------------------------------------

CursorsInRange ==
  sections # <<>> =>
    /\ selected_section_index < Len(sections)
    /\ sections[selected_section_index + 1].items # <<>> =>
         selected_item_index < Len(sections[selected_section_index + 1].items)

LoadStep == \E key \in Keys : ExplorerEnterFile(key)

\* C6 (cursor range): in every state the section cursor is an index of
\* sections and the item cursor an index of the selected section's items, and
\* the step that loads a file leaves both cursors at 0.
C6_CursorRange ==
  /\ CursorsInRange
  /\ [][ /\ CursorsInRange'
         /\ LoadStep => (selected_section_index' = 0 /\ selected_item_index' = 0)
       ]_vars

\* the cursors on the last item of a section that is not the first
C6_Witness ==
  /\ current_screen = "Editing"
  /\ selected_section_index > 0
  /\ selected_item_index > 0
  /\ selected_item_index =
       Len(sections[selected_section_index + 1].items) - 1

\* --- C7 ------------------------------------------------------------------

\* the item cursor after n presses of Down
RECURSIVE DownTimes(_, _, _, _)
DownTimes(secs, si, ii, n) ==
  IF n = 0 THEN ii ELSE DownTimes(secs, si, DownItemIndex(secs, si, ii), n - 1)

\* C7 (cyclic item navigation): in a section of N >= 1 items, a Down
\* followed by N - 1 more brings the item cursor back to where it started, and
\* an Up from index 0 puts it on N - 1.
C7_CyclicItems ==
  [][ \A key \in Keys :
        (EditingItem(key) /\ HasEntry(sections, selected_section_index, 0)) =>
          LET n == Len(sections[selected_section_index + 1].items)
          IN  /\ key.code = "Down" =>
                   DownTimes(sections, selected_section_index,
                             selected_item_index', n - 1) = selected_item_index
              /\ (key.code = "Up" /\ selected_item_index = 0) =>
                   selected_item_index' = n - 1
    ]_vars

\* --- C8 ------------------------------------------------------------------

\* C8 (cyclic section navigation): with S >= 1 sections, Right/Tab moves the
\* section cursor to (i + 1) mod S and Left/BackTab to (i - 1) mod S, and every
\* step that changes the section cursor leaves the item cursor and the list
\* selection at 0.
C8_CyclicSections ==
  [][ /\ \A key \in Keys :
           (EditingSection(key) /\ sections # <<>>) =>
             selected_section_index' =
               IF key.code \in {"Right", "Tab"}
               THEN (selected_section_index + 1) % Len(sections)
               ELSE (selected_section_index + Len(sections) - 1) % Len(sections)
      /\ selected_section_index' # selected_section_index =>
           /\ selected_item_index' = 0
           /\ config_list_state'.selected = Some(0)
    ]_vars

\* the section cursor on the last of three sections, reached from the first
\* by one step back or from the second by one step on
C8_Witness ==
  /\ current_screen = "Editing"
  /\ Len(sections) = 3
  /\ selected_section_index = 2
  /\ selected_item_index = 0

\* --- C9 ------------------------------------------------------------------

SelectedEntry == EntryAt(sections, selected_section_index, selected_item_index)

C10_CustomEnabled ==
  \A i \in 1..Len(AllEntries(sections)) :
    AllEntries(sections)[i].schema = None => AllEntries(sections)[i].enabled

\* --- C11 -----------------------------------------------------------------

S_Authentication == P2PoolRules[1].title
S_BitcoinNode == P2PoolRules[2].title
S_Network == P2PoolRules[3].title
S_Payouts == P2PoolRules[4].title
S_bitcoind_rpcport ==
  <<"b", "i", "t", "c", "o", "i", "n", "d", ".", "r", "p", "c", "p", "o", "r", "t">>
S_listen_port ==
  <<"l", "i", "s", "t", "e", "n", "_", "p", "o", "r", "t">>
S_wallet_address ==
  <<"w", "a", "l", "l", "e", "t", "_", "a", "d", "d", "r", "e", "s", "s">>

\* the keys the text assigns, read directly off its lines
P2PoolKeys(file) ==
  { RawKey(file.lines[i]) :
      i \in { j \in 1..Len(file.lines) :
                /\ Trim(file.lines[j]) # <<>>
                /\ Head(Trim(file.lines[j])) # "#"
                /\ IndexOf(file.lines[j], "=") > 0 } }

FiveKeys ==
  { S_rpcuser, S_bitcoind_rpcport, S_listen_port, S_wallet_address, S_foo }

\* the sections returned, each as its title with the set of its keys
Buckets(secs) ==
  { << secs[k].title,
       { secs[k].fields[i].key : i \in 1..Len(secs[k].fields) } >> :
      k \in 1..Len(secs) }

\* C11 as stated: a text whose keys are rpcuser, bitcoind.rpcport,
\* listen_port, wallet_address and foo is grouped into five sections with one
\* key each, wallet_address alone in Payouts.
C11_FiveBuckets ==
  (p2pool_parsed # None /\ P2PoolKeys(p2pool_file) = FiveKeys) =>
    /\ p2pool_parsed[1].ok
    /\ Buckets(p2pool_parsed[1].sections) =
         { << S_Authentication, {S_rpcuser} >>,
           << S_BitcoinNode, {S_bitcoind_rpcport} >>,
           << S_Network, {S_listen_port} >>,
           << S_Payouts, {S_wallet_address} >>,
           << S_GeneralSettings, {S_foo} >> }

\* C11, with the rule order applied: a text whose keys are rpcuser,
\* bitcoind.rpcport, listen_port, wallet_address and foo is grouped into four
\* sections: rpcuser in Authentication, bitcoind.rpcport in Bitcoin Node, foo
\* in General Settings, listen_port and wallet_address both in Network.
C11_FourBuckets ==
  (p2pool_parsed # None /\ P2PoolKeys(p2pool_file) = FiveKeys) =>
    /\ p2pool_parsed[1].ok
    /\ Buckets(p2pool_parsed[1].sections) =
         { << S_Authentication, {S_rpcuser} >>,
           << S_BitcoinNode, {S_bitcoind_rpcport} >>,
           << S_Network, {S_listen_port, S_wallet_address} >>,
           << S_GeneralSettings, {S_foo} >> }

\* a text with exactly the five keys, wallet_address ahead of listen_port,
\* has been parsed
C11_Witness ==
  /\ p2pool_parsed # None
  /\ P2PoolKeys(p2pool_file) = FiveKeys
  /\ RawKey(p2pool_file.lines[1]) = S_foo
  /\ Len(p2pool_file.lines) = 5

\* --- C12 -----------------------------------------------------------------

\* how often the entry occurs in the sequence
Occurrences(entries, e) == Cardinality({ i \in 1..Len(entries) : entries[i] = e })

\* C12 (grouping of a load): in the session just loaded the section names
\* are strictly ascending, no section is empty, an entry with a schema is in
\* the section its schema names and an entry without one is in "Custom", and
\* the entries of the sections are the parsed entries, each exactly as often
\* as the parse returned it.
C12_Grouped ==
  current_screen = "Editing" =>
    /\ \A k \in 1..(Len(sections) - 1) :
         StrLess(sections[k].name, sections[k + 1].name)
    /\ \A k \in 1..Len(sections) :
         /\ sections[k].items # <<>>
         /\ \A i \in 1..Len(sections[k].items) :
              LET entry == sections[k].items[i]
              IN  sections[k].name =
                    IF entry.schema = None THEN S_Custom
                    ELSE entry.schema[1].section
    /\ \E ord \in ParseOrders(LoadedFile) :
         LET parsed == parse_config(LoadedFile, ord)
             grouped == AllEntries(sections)
         IN  /\ Len(parsed) = Len(grouped)
             /\ \A i \in 1..Len(parsed) :
                  Occurrences(grouped, parsed[i]) = Occurrences(parsed, parsed[i])

\* a load that gave three sections, "Custom" with two entries between the
\* two schema sections
C12_Witness ==
  /\ current_screen = "Editing"
  /\ Len(sections) = 3
  /\ sections[2].name = S_Custom
  /\ Len(sections[2].items) = 2

\* --- C13 -----------------------------------------------------------------

\* the listing shows the directory as it is on disk: the parent marker when
\* there is a parent, every entry of the directory, each once, and a
\* selection inside the listing
ListingFresh ==
  LET files == file_explorer.files
      dir == file_explorer.current_dir
  IN  /\ { files[i] : i \in 1..Len(files) } =
           (IF HasParent(dir) THEN { dir \o <<DotDot>> } ELSE {}) \cup ReadDir(dir)
      /\ Cardinality({ files[i] : i \in 1..Len(files) }) = Len(files)
      /\ files # <<>> =>
           /\ file_explorer.list_state.selected # None
           /\ file_explorer.list_state.selected[1] < Len(files)

C15_EnterLoads ==
  [][ \A key \in Keys :
        key.code = "Enter" =>
          /\ (ExplorerEnterFile(key) /\ BuildConfig(fs[ExplorerSelected[1]]).ok) =>
               /\ current_screen' = "Editing"
               /\ config_file_path' = ExplorerSelected
               /\ selected_section_index' = 0
               /\ selected_item_index' = 0
               /\ \E ord \in ParseOrders(fs[ExplorerSelected[1]]) :
                    LET parsed == parse_config(fs[ExplorerSelected[1]], ord)
                        loaded == AllEntries(sections')
                    IN  /\ Len(parsed) = Len(loaded)
                        /\ \A i \in 1..Len(parsed) :
                             Occurrences(loaded, parsed[i]) =
                               Occurrences(parsed, parsed[i])
          /\ ExplorerEnterDir(key) =>
               /\ current_screen' = "FileExplorer"
               /\ sections' = sections
               /\ config_file_path' = config_file_path
    ]_vars

\* a file saved by the session has been loaded again: the sections hold the
\* entries of the saved text
C15_Witness ==
  /\ current_screen = "Editing"
  /\ notification = None
  /\ selected_section_index = 0
  /\ selected_item_index = 0
  /\ edits = MaxEdits
  /\ LoadedFile.lines # TextSectioned
  /\ \E ord \in ParseOrders(LoadedFile) :
       AllEntries(sections) = parse_config(LoadedFile, ord)

\* --- C16 -----------------------------------------------------------------

\* C16 (a failed open is local): when Enter is pressed on a file that cannot
\* be read or parsed, the session stays on FileExplorer, sections and both
\* cursors are as before, no notification is set and the session keeps
\* running.
C16_FailedOpenStays ==
  [][ \A key \in Keys :
        (ExplorerEnterFile(key) /\ ~BuildConfig(fs[ExplorerSelected[1]]).ok) =>
          /\ current_screen' = "FileExplorer"
          /\ sections' = sections
          /\ selected_section_index' = selected_section_index
          /\ selected_item_index' = selected_item_index
          /\ notification' = None
          /\ running'
    ]_vars

\* --- C17 -----------------------------------------------------------------

\* C17 (outcomes of parse_config): a file that exists and cannot be read is
\* an error of the parse, so the load fails and the session is never on
\* Editing with such a file; a path whose target is missing gives the schema
\* defaults.
C17_ReadFailureIsError ==
  current_screen = "Editing" =>
    /\ ~(LoadedFile.exists /\ ~LoadedFile.readable)
    /\ ~LoadedFile.exists => AllEntries(sections) = DefaultEntries

\* --- C18 -----------------------------------------------------------------

\* the sections differ at most in the entry under the cursors
SameButSelected(before, after) ==
  /\ Len(after) = Len(before)
  /\ \A k \in 1..Len(before) :
       /\ after[k].name = before[k].name
       /\ Len(after[k].items) = Len(before[k].items)
       /\ \A i \in 1..Len(before[k].items) :
            (k # selected_section_index + 1 \/ i # selected_item_index + 1) =>
              after[k].items[i] = before[k].items[i]

\* C18 (Enter commits): Enter in EditingValue gives the selected entry the
\* edit buffer as its value and enables it, leaves its key and schema and
\* every other entry as they were, and puts the session on Editing.
C18_EnterCommits ==
  [][ \A key \in Keys :
        EditValueEnter(key) =>
          /\ HasEntry(sections, selected_section_index, selected_item_index)
          /\ SelectedEntry'.value = editing_value
          /\ SelectedEntry'.enabled
          /\ SelectedEntry'.key = SelectedEntry.key
          /\ SelectedEntry'.schema = SelectedEntry.schema
          /\ SameButSelected(sections, sections')
          /\ current_screen' = "Editing"
    ]_vars

\* the entry prune, disabled with value "0" when loaded, holds a typed value
\* and is enabled; nothing was written
C18_Witness ==
  /\ current_screen = "Editing"
  /\ edits = 1
  /\ LoadedFile.lines = TextSectioned
  /\ HasEntry(sections, selected_section_index, selected_item_index)
  /\ SelectedEntry.key = S_prune
  /\ SelectedEntry.value = <<"q">>
  /\ SelectedEntry.enabled

\* --- C19 -----------------------------------------------------------------

\* C19 (Esc discards): no step that stays on EditingValue changes an entry,
\* whatever is typed or deleted, and Esc in EditingValue puts the session on
\* Editing with every entry as it was.
C19_EscDiscards ==
  [][ /\ (current_screen = "EditingValue" /\ current_screen' = "EditingValue") =>
           sections' = sections
      /\ \A key \in Keys :
           EditValueEsc(key) =>
             /\ current_screen' = "Editing"
             /\ sections' = sections
    ]_vars

\* back on Editing with a buffer that was typed over the value of prune and
\* never committed
C19_Witness ==
  /\ current_screen = "Editing"
  /\ edits = 0
  /\ HasEntry(sections, selected_section_index, selected_item_index)
  /\ SelectedEntry.key = S_prune
  /\ SelectedEntry.value = <<"0">>
  /\ ~SelectedEntry.enabled
  /\ editing_value = <<"q">>

\* --- C20 -----------------------------------------------------------------

\* C20 (save chord in EditingValue): the chord gives the selected entry the
\* edit buffer as its value and enables it, leaves the buffer as it is and
\* puts the session on Editing; when the write succeeds the file holds the
\* line key=buffer of that entry and the serialization of the committed
\* sections.
C20_SaveChordCommits ==
  [][ \A key \in Keys :
        /\ \A write_ok \in BOOLEAN :
             EditValueSave(key, write_ok) =>
               /\ HasEntry(sections, selected_section_index, selected_item_index)
               /\ SelectedEntry'.value = editing_value
               /\ SelectedEntry'.enabled
               /\ SameButSelected(sections, sections')
               /\ editing_value' = editing_value
               /\ current_screen' = "Editing"
        /\ (EditValueSave(key, TRUE) /\ config_file_path # None) =>
             /\ \E n \in 1..Len(fs'[config_file_path[1]].lines) :
                  fs'[config_file_path[1]].lines[n] =
                    SelectedEntry.key \o <<"=">> \o editing_value
             /\ fs'[config_file_path[1]].lines = SerializeSections(sections')
    ]_vars

\* saved from the popup: prune holds the typed value and the file the line
\* prune=q
C20_Witness ==
  /\ current_screen = "Editing"
  /\ notification = Some(SavedNote)
  /\ HasEntry(sections, selected_section_index, selected_item_index)
  /\ SelectedEntry.key = S_prune
  /\ SelectedEntry.value = <<"q">>
  /\ \E n \in 1..Len(LoadedFile.lines) :
       LoadedFile.lines[n] = S_prune \o <<"=", "q">>

\* --- C21 -----------------------------------------------------------------

\* C21 (save chord in Editing): the chord leaves the screen, the sections,
\* both cursors and the edit buffer as they are; when the write succeeds the
\* file at config_file_path holds the serialization of the sections, no
\* other file changes, and the notification is the confirmation.
C21_SaveInEditing ==
  [][ \A key \in Keys :
        /\ \A write_ok \in BOOLEAN :
             EditingSave(key, write_ok) =>
               /\ config_file_path # None
               /\ UNCHANGED << current_screen, sections,
                               selected_section_index, selected_item_index,
                               editing_value >>
        /\ EditingSave(key, TRUE) =>
             /\ fs'[config_file_path[1]] = FileOf(SerializeSections(sections))
             /\ \A p \in FilePaths \ {config_file_path[1]} : fs'[p] = fs[p]
             /\ notification' = Some(SavedNote)
    ]_vars

\* saved from Editing with no entry touched: the disk holds the serialization
\* of the loaded sections, which is not the text the file was opened with
C21_Witness ==
  /\ current_screen = "Editing"
  /\ edits = 0
  /\ notification = Some(SavedNote)
  /\ LoadedFile = FileOf(SerializeSections(sections))
  /\ LoadedFile.lines # TextSectioned

\* --- C22 -----------------------------------------------------------------

\* the quit key
QuitKey == [code |-> "Char", ch |-> "q", ctrl |-> FALSE]

\* the key is pressed: whichever arm of the handlers takes it
PressKey(key) ==
  \/ MenuKey(key) \/ HomeKey(key) \/ BitcoinConfigEnter(key)
  \/ ExplorerEsc(key) \/ ExplorerMove(key) \/ ExplorerEnterDir(key)
  \/ ExplorerEnterFile(key)
  \/ \E write_ok \in BOOLEAN : EditingSave(key, write_ok)
  \/ EditingEsc(key) \/ EditingSection(key) \/ EditingItem(key)
  \/ EditingEnterBoolean(key) \/ EditingEnterValue(key) \/ EditingSpace(key)
  \/ \E write_ok \in BOOLEAN : EditValueSave(key, write_ok)
  \/ EditValueEsc(key) \/ EditValueEnter(key) \/ EditValueType(key)
  \/ IgnoredKey(key)

\* C22 (global quit): on Home, BitcoinConfig, FileExplorer and Editing the
\* quit key has no outcome that leaves the session running.
C22_QuitTerminates ==
  (running /\ current_screen # "EditingValue")
    => ~ENABLED (PressKey(QuitKey) /\ running')

\* --- C23 -----------------------------------------------------------------

\* the character keys pressed without a modifier, the quit key among them
CharKeys == { key \in Keys : key.code = "Char" /\ ~key.ctrl }

BackspaceKey == [code |-> "Backspace", ch |-> "", ctrl |-> FALSE]

\* the buffer without its last character
ButLast(buffer) ==
  IF buffer = <<>> THEN <<>> ELSE SubSeq(buffer, 1, Len(buffer) - 1)

\* the session is still running on the value popup after the step
StaysInPopup == running' /\ current_screen' = "EditingValue"

BaseName(path) == path[Len(path)]

\* files lists dir: the parent marker first exactly when dir has a parent
\* and nowhere else, then every entry of dir once, no entry that is not a
\* directory before a directory, and the names ascending within each group
ListingOf(dir, files) ==
  LET first == IF HasParent(dir) THEN 2 ELSE 1
  IN  /\ HasParent(dir) => (files # <<>> /\ files[1] = dir \o <<DotDot>>)
      /\ \A i \in first..Len(files) : ~EndsWithDotDot(files[i])
      /\ { files[i] : i \in first..Len(files) } = ReadDir(dir)
      /\ Len(files) = Cardinality(ReadDir(dir)) + first - 1
      /\ \A i, j \in first..Len(files) :
           i < j =>
             /\ is_dir(files[j]) => is_dir(files[i])
             /\ (is_dir(files[i]) <=> is_dir(files[j]))
                  => StrLess(BaseName(files[i]), BaseName(files[j]))

\* C24 (explorer listing): the listing of FileExplorerState (app.rs) and the
\* listing of FileExplorer (components/file_explorer.rs) are, after every
\* refresh, the parent marker if the directory has a parent, then the
\* directories by name, then the other entries by name.
C24_ListingOrder ==
  /\ running => ListingOf(file_explorer.current_dir, file_explorer.files)
  /\ app # None => ListingOf(app.explorer.current_dir, app.explorer.files)

\* the session's explorer inside /d: the marker, the directories b and k,
\* then a and x
C24_Witness ==
  /\ running
  /\ current_screen = "FileExplorer"
  /\ file_explorer.current_dir = << <<"d">> >>
  /\ Len(file_explorer.files) = 5
  /\ BaseName(file_explorer.files[2]) = <<"b">>
  /\ BaseName(file_explorer.files[5]) = <<"x">>

\* --- C25 -----------------------------------------------------------------

\* the index after a cyclic step forward / backward over n entries
CyclicNext(i, n) == IF i = n - 1 THEN 0 ELSE i + 1
CyclicPrevious(i, n) == IF i = 0 THEN n - 1 ELSE i - 1

\* C25 (cyclic selection): in both explorers the selection is an index of the
\* listing whenever the listing is not empty; select-next and select-previous
\* move it by one with wrap-around at the two ends and leave the listing and
\* the directory alone, and on an empty listing they change nothing.
C25_CyclicSelection ==
  /\ running =>
       LET fe == file_explorer
           n == Len(fe.files)
       IN  IF n = 0
           THEN select_next(fe) = fe /\ select_previous(fe) = fe
           ELSE /\ fe.list_state.selected # None
                /\ fe.list_state.selected[1] < n
                /\ select_next(fe) =
                     [fe EXCEPT !.list_state.selected =
                                   Some(CyclicNext(fe.list_state.selected[1], n))]
                /\ select_previous(fe) =
                     [fe EXCEPT !.list_state.selected =
                                   Some(CyclicPrevious(fe.list_state.selected[1], n))]
  /\ app # None =>
       LET ex == app.explorer
           n == Len(ex.files)
       IN  IF n = 0
           THEN next(ex) = ex /\ previous(ex) = ex
           ELSE /\ ex.selected_index < n
                /\ next(ex) =
                     [ex EXCEPT !.selected_index = CyclicNext(ex.selected_index, n)]
                /\ previous(ex) =
                     [ex EXCEPT !.selected_index = CyclicPrevious(ex.selected_index, n)]

\* run_app's explorer on the last of the five entries of /d
C25_Witness ==
  /\ app # None
  /\ app.current_screen = "FileExplorer"
  /\ Len(app.explorer.files) = 5
  /\ app.explorer.selected_index = 4

\* --- C26 -----------------------------------------------------------------

\* the explorer is in dir with a fresh listing and the first entry selected
OpenedAt(explorer, dir) ==
  /\ explorer.current_dir = dir
  /\ explorer.selected_index = 0
  /\ ListingOf(dir, explorer.files)

\* C26 (FileExplorer::select): on the parent marker the explorer moves to the
\* parent of current_dir, on a directory it moves into it, in both cases with
\* a fresh listing, the selection at 0 and nothing returned; on any other
\* entry the path is returned and the explorer is left as it was.
C26_SelectDispatch ==
  (app # None /\ app.explorer.files # <<>>) =>
    LET ex == app.explorer
        selected == ex.files[ex.selected_index + 1]
        r == select(ex)
    IN  /\ EndsWithDotDot(selected) =>
             r.path = None /\ OpenedAt(r.explorer, Parent(ex.current_dir))
        /\ selected \in Dirs =>
             r.path = None /\ OpenedAt(r.explorer, selected)
        /\ selected \in FilePaths =>
             r.path = Some(selected) /\ r.explorer = ex
        /\ EndsWithDotDot(selected) \/ selected \in Dirs \/ selected \in FilePaths

\* run_app's explorer moved from the third entry of /d into the directory k
C26_Witness ==
  /\ app # None
  /\ app.current_screen = "FileExplorer"
  /\ OpenedAt(app.explorer, << <<"d">>, <<"k">> >>)

\* --- C27 -----------------------------------------------------------------

HollowSection == [title |-> <<"A">>, fields |-> <<>>]
FilledSection == [title |-> <<"B">>, fields |-> << ConfigField(S_foo, <<"1">>) >>]

\* none of the four navigation operations changes the editor
EditorInert(editor) ==
  /\ next_tab(editor) = editor
  /\ previous_tab(editor) = editor
  /\ next_field(editor) = editor
  /\ previous_field(editor) = editor

\* C28 (empty targets): a ConfigEditor without sections is left as it is by
\* next/previous tab and next/previous field; on a section without fields
\* next/previous field leave the field selection None; and the Editing
\* handlers of App find no entry to act on, and no item to move to, when
\* there is no section or the section has no items.
C28_EmptyTargets ==
  app # None =>
    LET editor == app.p2pool_editor
        hollow == load_data(editor, << HollowSection >>)
        mixed == next_tab(load_data(editor, << FilledSection, HollowSection >>))
    IN  /\ editor.sections = <<>> => EditorInert(editor)
        /\ EditorInert(load_data(editor, <<>>))
        /\ \A e \in { hollow, mixed } :
             /\ e.sections[e.selected_tab + 1].fields = <<>>
             /\ e.field_state.selected = None
             /\ next_field(e) = e
             /\ previous_field(e) = e
        /\ \A secs \in { <<>>, << [name |-> S_Custom, items |-> <<>>] >> } :
             /\ ~HasEntry(secs, 0, 0)
             /\ DownItemIndex(secs, 0, 0) = 0
             /\ UpItemIndex(0) = 0

\* the p2pool screen takes the arrow keys while its editor has no section:
\* the chosen file could not be read
C28_Witness ==
  /\ app # None
  /\ app.in_loop
  /\ app.current_screen = "P2PoolConfig"
  /\ app.p2pool_conf_path # None
  /\ app.p2pool_editor.sections = <<>>

\* --- C29 -----------------------------------------------------------------

FieldsOf(secs) ==
  UNION { { secs[i].fields[j] : j \in 1..Len(secs[i].fields) } :
          i \in 1..Len(secs) }

\* the entry a line stands for: none when it is blank or starts with '#',
\* key and value around the first '=', and otherwise the flag of the
\* trimmed line with the value "1"
LineEntry(line) ==
  LET trimmed == Trim(line)
      eq == IndexOf(trimmed, "=")
  IN  IF trimmed = <<>> \/ Head(trimmed) = "#" THEN {}
      ELSE IF eq > 0
      THEN { ConfigField(Trim(SubSeq(trimmed, 1, eq - 1)),
                         Trim(SubSeq(trimmed, eq + 1, Len(trimmed)))) }
      ELSE { ConfigField(trimmed, <<"1">>) }

\* C30 (line parsing): the fields of a parsed file are the entries of its
\* lines: none for a blank line or a line that starts with '#', key and
\* value split at the first '=' and trimmed for a line with '=', and key =
\* the trimmed line with the value "1" for a line without '='.
C30_LineParsing ==
  (p2pool_parsed # None /\ p2pool_parsed[1].ok) =>
    FieldsOf(p2pool_parsed[1].sections) =
      UNION { LineEntry(p2pool_file.lines[i]) :
              i \in 1..Len(p2pool_file.lines) }

\* --- C31 -----------------------------------------------------------------

\* the selections a refresh can meet: none, or any row up to one past the
\* longest listing
MaxRow == 6
Selections == { None } \cup { Some(i) : i \in 0..MaxRow }

\* the explorer in one of the directories, with the selection sel
ExplorerAt(dir, sel) ==
  [file_explorer EXCEPT !.current_dir = dir, !.list_state.selected = sel]

\* C31 (refresh keeps a valid selection): refresh_files, applied in any
\* directory over any selection, leaves a selection that is a valid index of
\* the rebuilt listing as it is (no selection counts as index 0), puts a
\* selection past the end on the last index, and clears it when the listing
\* is empty; and on the FileExplorer screen, which is only entered through a
\* refresh, the selection is absent over an empty listing or an index below
\* the length of the listing.
C31_RefreshSelection ==
  /\ \A dir \in Dirs, sel \in Selections :
       LET after == refresh_files(ExplorerAt(dir, sel))
           n == Len(after.files)
           was == IF sel = None THEN 0 ELSE sel[1]
       IN  /\ n = 0 => after.list_state.selected = None
           /\ (n > 0 /\ was < n) => after.list_state.selected = Some(was)
           /\ (n > 0 /\ was >= n) => after.list_state.selected = Some(n - 1)
           /\ after.current_dir = dir
  /\ current_screen = "FileExplorer" =>
       IF file_explorer.files = <<>>
       THEN file_explorer.list_state.selected = None
       ELSE /\ file_explorer.list_state.selected # None
            /\ file_explorer.list_state.selected[1] < Len(file_explorer.files)

\* the explorer was opened on a root directory without entries: the refresh
\* cleared the selection that FileExplorerState::new had put on row 0
C31_Witness ==
  /\ running
  /\ current_screen = "FileExplorer"
  /\ FileExplorerStateNew.list_state.selected = Some(0)
  /\ file_explorer.files = <<>>
  /\ file_explorer.list_state.selected = None

\* --- C32 -----------------------------------------------------------------

EnterKey == [code |-> "Enter", ch |-> "", ctrl |-> FALSE]

\* a left-button press inside the recorded rectangle of the button
ButtonHit(mouse) ==
  /\ mouse.kind = "DownLeft"
  /\ interactive_rects.select_config_button # None
  /\ LET rect == interactive_rects.select_config_button[1]
     IN  /\ mouse.column >= rect.x /\ mouse.column < rect.x + rect.width
         /\ mouse.row >= rect.y /\ mouse.row < rect.y + rect.height

\* C32 (button = Enter): on BitcoinConfig a left-button press inside the
\* select_config_button rectangle leads to the very state Enter leads to
\* (FileExplorer, BitcoinConfig recorded as the screen to return to, the
\* explorer refreshed), and every other pointer event leaves the session as
\* it is.
C32_ButtonIsEnter ==
  [][ current_screen = "BitcoinConfig" =>
      \A mouse \in MouseEvents :
        MouseRoleScreen(mouse) =>
          IF ButtonHit(mouse)
          THEN /\ BitcoinConfigEnter(EnterKey)
               /\ current_screen' = "FileExplorer"
               /\ config_flow_return_screen' = "BitcoinConfig"
               /\ file_explorer' =
                    ui_file_explorer(refresh_files(file_explorer), "FileExplorer")
          ELSE UNCHANGED vars
    ]_vars

\* the explorer was opened from BitcoinConfig while Home was the recorded
\* screen to return to; the sidebar marks that a role screen was left
C32_Witness ==
  /\ running
  /\ current_screen = "FileExplorer"
  /\ config_flow_return_screen = "BitcoinConfig"
  /\ sidebar_index = 1
  /\ config_file_path = None
  /\ interactive_rects.select_config_button # None
  /\ interactive_rects.file_list # None

\* --- C33 -----------------------------------------------------------------

\* a left-button press inside the recorded rectangle of the file list
FileListHit(mouse) ==
  /\ mouse.kind = "DownLeft"
  /\ interactive_rects.file_list # None
  /\ LET rect == interactive_rects.file_list[1]
     IN  /\ mouse.column >= rect.x /\ mouse.column < rect.x + rect.width
         /\ mouse.row >= rect.y /\ mouse.row < rect.y + rect.height

\* press.row - rect.y - 1 + scroll_offset
PressedRow(mouse) ==
  mouse.row - interactive_rects.file_list[1].y - 1 + file_explorer.list_state.offset

\* the press is on a row between the borders of the list
InnerRow(mouse) ==
  /\ mouse.row > interactive_rects.file_list[1].y
  /\ mouse.row < interactive_rects.file_list[1].y
                 + interactive_rects.file_list[1].height - 1

\* nothing is opened and the listing stays as it is
NotActivated ==
  /\ current_screen' = current_screen
  /\ file_explorer'.current_dir = file_explorer.current_dir
  /\ file_explorer'.files = file_explorer.files
  /\ sections' = sections
  /\ config_file_path' = config_file_path

\* the selection and the frame of C33 as stated: the pressed row, or the
\* last entry when the pressed row is past the end; nothing is opened
PressClamped(mouse) ==
  /\ file_explorer'.list_state.selected =
       Some(IF PressedRow(mouse) < Len(file_explorer.files)
            THEN (IF PressedRow(mouse) < 0 THEN 0 ELSE PressedRow(mouse))
            ELSE Len(file_explorer.files) - 1)
  /\ NotActivated

\* C33 as stated (a press re-targets the selection): a left-button press
\* inside the file_list rectangle over a listing with entries puts the
\* selection on the pressed row, or on the last entry when the pressed row is
\* past the end, and opens nothing.
C33_PressClamped ==
  current_screen = "FileExplorer" =>
    \A mouse \in MouseEvents :
      (FileListHit(mouse) /\ file_explorer.files # <<>>) =>
        ~ENABLED (MouseFileExplorer(mouse) /\ ~PressClamped(mouse))

\* the selection and the frame the handler leaves
PressSelects(mouse) ==
  /\ file_explorer'.list_state.selected =
       IF /\ FileListHit(mouse) /\ InnerRow(mouse)
          /\ PressedRow(mouse) < Len(file_explorer.files)
       THEN Some(PressedRow(mouse))
       ELSE file_explorer.list_state.selected
  /\ NotActivated
  /\ file_explorer.files # <<>> =>
       /\ file_explorer'.list_state.selected # None
       /\ file_explorer'.list_state.selected[1] < Len(file_explorer.files)

\* C33 (a press re-targets the selection): a left-button press on a row
\* between the borders of the file_list rectangle whose row, press.row -
\* rect.y - 1 + scroll_offset, is below the file count puts the selection on
\* that row; every other pointer event on FileExplorer, a press on a border
\* or past the last entry included, leaves the selection where it was; no
\* pointer event opens anything, and the selection stays a valid index.
C33_PressSelects ==
  current_screen = "FileExplorer" =>
    \A mouse \in MouseEvents :
      ~ENABLED (MouseFileExplorer(mouse) /\ ~PressSelects(mouse))

\* the listing of /d is scrolled by one row with its last entry selected,
\* and a press on the first row of the list moves the selection to entry 1
C33_Witness ==
  /\ running
  /\ current_screen = "FileExplorer"
  /\ Len(file_explorer.files) = 5
  /\ file_explorer.list_state = [selected |-> Some(4), offset |-> 1]
  /\ ENABLED ( /\ MouseFileExplorer([kind |-> "DownLeft", column |-> 30,
                                      row |-> 1])
               /\ file_explorer'.list_state.selected = Some(1) )

\* --- C34 -----------------------------------------------------------------

\* the first column of tab i: rect.x + 1, moved right by the widths
\* len(name) + 3 of the tabs before it and one column after each
RECURSIVE TabStart(_)
TabStart(i) ==
  IF i = 0 THEN interactive_rects.tabs[1].x + 1
  ELSE TabStart(i - 1) + Len(sections[i].name) + 3 + 1

\* the tabs whose span holds the column
TabsUnder(column) ==
  { i \in 0..(Len(sections) - 1) :
      /\ column >= TabStart(i)
      /\ column < TabStart(i) + Len(sections[i + 1].name) + 3 }

\* a left-button press inside the recorded rectangle of the tabs
TabsHit(mouse) ==
  /\ mouse.kind = "DownLeft"
  /\ interactive_rects.tabs # None
  /\ LET rect == interactive_rects.tabs[1]
     IN  /\ mouse.column >= rect.x /\ mouse.column < rect.x + rect.width
         /\ mouse.row >= rect.y /\ mouse.row < rect.y + rect.height

\* the press is on the row between the borders of the tabs
TabRow(mouse) ==
  /\ mouse.row > interactive_rects.tabs[1].y
  /\ mouse.row < interactive_rects.tabs[1].y + interactive_rects.tabs[1].height - 1

\* the cursors after a press that selects the tab under the column, if any
TabSelected(mouse) ==
  IF TabsUnder(mouse.column) # {}
  THEN /\ selected_section_index' \in TabsUnder(mouse.column)
       /\ selected_item_index' = 0
  ELSE /\ selected_section_index' = selected_section_index
       /\ selected_item_index' = selected_item_index

\* C34 as stated (a press on the tabs): a left-button press inside the tabs
\* rectangle in Editing selects the section whose tab span holds the press
\* column and puts the item cursor on 0; a press in a gap or past the last
\* tab changes no cursor.
C34_TabPress ==
  current_screen = "Editing" =>
    \A mouse \in MouseEvents :
      TabsHit(mouse) =>
        ~ENABLED (MouseEditing(mouse) /\ ~TabSelected(mouse))

\* C34 (a press on the tabs): a left-button press on the row between the
\* borders of the tabs rectangle in Editing selects the section whose tab
\* span holds the press column (spans run from rect.x + 1, each len(name) + 3
\* wide, one column apart, so a column is in at most one) and puts the item
\* cursor on 0; a press in a gap, past the last tab or on a border row of
\* the rectangle changes no cursor.
C34_TabRowPress ==
  current_screen = "Editing" =>
    /\ \A column \in 0..(TermWidth - 1) : Cardinality(TabsUnder(column)) <= 1
    /\ \A mouse \in MouseEvents :
         TabsHit(mouse) =>
           ~ENABLED ( /\ MouseEditing(mouse)
                      /\ ~(IF TabRow(mouse) THEN TabSelected(mouse)
                           ELSE /\ selected_section_index' = selected_section_index
                                /\ selected_item_index' = selected_item_index) )

\* the item cursor is on the second entry of Core, and a press on the tab of
\* RPC selects that section with the item cursor back on 0
C34_Witness ==
  /\ running
  /\ current_screen = "Editing"
  /\ selected_section_index = 0
  /\ selected_item_index = 1
  /\ sections[3].name = S_RPC
  /\ TabsUnder(46) = {2}
  /\ ENABLED ( /\ MouseEditing([kind |-> "DownLeft", column |-> 46, row |-> 1])
               /\ selected_section_index' = 2
               /\ selected_item_index' = 0 )

\* --- C35 -----------------------------------------------------------------

\* the slots the frame of a screen records
SlotsDrawn(screen) ==
  CASE screen = "Home" -> {}
    [] screen = "BitcoinConfig" -> {"select_config_button"}
    [] screen = "FileExplorer" -> {"file_list"}
    [] OTHER -> {"tabs", "config_list"}

\* C35 (rectangles of the displayed frame only): a slot of interactive_rects
\* whose widget the frame of the current screen does not draw is absent, and
\* on Home, whose frame draws no button, no pointer event opens the file
\* explorer.
C35_FrameRects ==
  /\ \A slot \in DOMAIN interactive_rects :
       slot \notin SlotsDrawn(current_screen) => interactive_rects[slot] = None
  /\ current_screen = "Home" =>
       \A mouse \in MouseEvents :
         ~ENABLED (MouseRoleScreen(mouse) /\ current_screen' = "FileExplorer")

\* --- C36 -----------------------------------------------------------------

SaveChord == [code |-> "Char", ch |-> "s", ctrl |-> TRUE]

\* C36 (the success notification means a successful write): a displayed
\* notification does not outlast a key event other than the save chord, and
\* right after a save chord whose write fails the notification is not the
\* success message.
C36_SuccessOnly ==
  /\ notification # None =>
       \A key \in Keys \ { SaveChord } :
         ~ENABLED (PressKey(key) /\ notification' # None)
  /\ ~ENABLED ( /\ EditingSave(SaveChord, FALSE) \/ EditValueSave(SaveChord, FALSE)
                /\ notification' = Some(SavedNote) )

\* --- C37 -----------------------------------------------------------------

\* C37 (the path names the loaded file): config_file_path changes only in
\* an Enter step of the explorer on a file that could be read and parsed,
\* the step in which the sections become the parse of that file; Enter on a
\* file that cannot be read or parsed leaves config_file_path as it was.
C37_PathOfSections ==
  [][ /\ config_file_path' # config_file_path =>
           \E key \in Keys :
             /\ ExplorerEnterFile(key)
             /\ BuildConfig(fs[ExplorerSelected[1]]).ok
             /\ config_file_path' = ExplorerSelected
      /\ \A key \in Keys :
           (ExplorerEnterFile(key) /\ ~BuildConfig(fs[ExplorerSelected[1]]).ok) =>
             config_file_path' = config_file_path
    ]_vars

\* --- C38 -----------------------------------------------------------------

\* C38 (the editing screens have something to edit): on Editing and on
\* EditingValue config_file_path is set, there is at least one section,
\* every section has at least one item, and the cursors are on an entry.
C38_EditingLoaded ==
  current_screen \in {"Editing", "EditingValue"} =>
    /\ config_file_path # None
    /\ sections # <<>>
    /\ \A k \in 1..Len(sections) : sections[k].items # <<>>
    /\ selected_section_index < Len(sections)
    /\ selected_item_index < Len(sections[selected_section_index + 1].items)

\* the value popup is open on the last item of the last of the three
\* sections of the file c
C38_Witness ==
  /\ running
  /\ current_screen = "EditingValue"
  /\ config_file_path = Some(ConfPath)
  /\ Len(sections) = 3
  /\ selected_section_index = 2
  /\ selected_item_index = Len(sections[3].items) - 1
  /\ selected_item_index > 0

\* --- C39 -----------------------------------------------------------------

\* C39 (the popup edits one entry): no step taken on EditingValue, by key or
\* by pointer, moves the section cursor or the item cursor; a step that stays
\* on EditingValue changes no entry; and the step that leaves it goes to
\* Editing with the entries as they were or with the edit buffer committed
\* to the entry under the cursors, which is the entry the popup was opened
\* on.
C39_PopupKeepsEntry ==
  [][ current_screen = "EditingValue" =>
        /\ selected_section_index' = selected_section_index
        /\ selected_item_index' = selected_item_index
        /\ current_screen' \in {"EditingValue", "Editing"}
        /\ current_screen' = "EditingValue" => sections' = sections
        /\ current_screen' = "Editing" =>
             \/ sections' = sections
             \/ sections' =
                  SetEntry(sections, selected_section_index, selected_item_index,
                           [SelectedEntry EXCEPT !.value = editing_value,
                                                 !.enabled = TRUE])
    ]_vars

\* the two characters typed over the value "" of rpcuser, the last item of
\* the last section, have been committed to rpcuser: the cursors are where
\* the popup was opened
C39_Witness ==
  /\ running
  /\ current_screen = "Editing"
  /\ edits = 1
  /\ selected_section_index = 2
  /\ selected_item_index = 1
  /\ SelectedEntry.key = S_rpcuser
  /\ SelectedEntry.value = <<"q", " ">>
  /\ SelectedEntry.enabled
  /\ editing_value = <<"q", " ">>

\* --- C40 -----------------------------------------------------------------

\* C40 (keys are unique): no two entries of the session, in the same or in
\* different sections, have the same key.
C40_UniqueKeys ==
  \A i, j \in 1..Len(AllEntries(sections)) :
    AllEntries(sections)[i].key = AllEntries(sections)[j].key => i = j

====
